---------------------------- MODULE Spec2Model ----------------------------
(***************************************************************************)
(* QuartzDB: the two HNSW graph indexes of the repository, the persistent   *)
(* vector index, the durable object that holds an index, and the merge of  *)
(* shard results.                                                           *)
(*                                                                         *)
(*   quartz-faas/src/vector/hnsw.rs    string ids, soft delete             *)
(*   quartz-vector/src/hnsw.rs         u64 ids, hard delete, max_layer     *)
(*   quartz-vector/src/storage.rs      PersistentVectorIndex               *)
(*   quartz-faas/src/durable.rs        VectorIndexObject                   *)
(*   quartz-faas/src/sharding.rs       merge_shard_results                 *)
(*                                                                         *)
(* Each part has its own specification over its own variables; the         *)
(* variables of the other parts stay at their initial values.              *)
(*                                                                         *)
(* Vectors are sequences of integers.  The index dimension is 1, so every  *)
(* metric is exact over the integers: the Euclidean distance of <<a>> and  *)
(* <<b>> is |a - b|, the dot product is a * b, and a normalised vector is  *)
(* <<-1>>, <<0>> or <<1>>.  The level a node gets (random_level,           *)
(* select_layer) is an input of the insert action.  The order in which a   *)
(* HashSet or HashMap is iterated is an input of every action that         *)
(* iterates one: ascending ids or descending ids.                          *)
(***************************************************************************)
EXTENDS Integers, Sequences, FiniteSets, TLC

VARIABLES
    crate,        \* which part this is: "quartz-faas", "quartz-vector", ...
    metric,       \* HnswIndex.metric
    vectors,      \* HnswIndex.vectors: id -> [vector, deleted]
    nodes,        \* HnswIndex.nodes:   id -> [level, connections]
    entry_point,  \* HnswIndex.entry_point (None: 0)
    max_layer,    \* HnswIndex.max_layer (quartz-vector only)
    panicked,     \* an operation panicked: the index is not used afterwards
    tombstones,   \* history: ids whose soft_delete returned true, until undelete
    last,         \* the last completed call and what it returned
    calls         \* history: the number of mutating calls made so far

(* PersistentVectorIndex (quartz-vector/src/storage.rs) *)
VARIABLES
    index_open,      \* a PersistentVectorIndex value exists in memory
    index_vectors,   \* VectorIndex.vectors:  id -> vector
    index_metadata,  \* VectorIndex.metadata: id -> metadata
    index_hnsw,      \* VectorIndex.hnsw, as the vectors it holds: id -> vector
    storage,         \* StorageEngine: key -> value, what RocksDB holds
    pending,         \* the call suspended at a storage await, or at "idle"
    reply,           \* the last call that ended and what it returned
    cut,             \* history: the last call cut short by a cancel or a crash
    clean,           \* history: no storage error, cancel or crash mid-call so far
    closed_with,     \* history: the in-memory index when it was last dropped
    ops              \* history: the number of calls begun

(* VectorIndexObject (quartz-faas/src/durable.rs) *)
VARIABLES
    do_index,         \* VectorIndexObject.index (NoIndex: None)
    initialized,      \* VectorIndexObject.initialized
    dirty,            \* VectorIndexObject.dirty
    alarm_scheduled,  \* VectorIndexObject.alarm_scheduled
    alarm_set,        \* the object's storage holds a pending alarm
    blob,             \* what storage holds under __hnsw_index__ (NoBlob: nothing)
    flush,            \* the handler suspended in persist_index, or by = "none"
    do_reply,         \* the last request answered and the answer
    acked,            \* history: ids inserted with success and not deleted since
    do_ops            \* history: the number of requests handled

(* merge_shard_results (quartz-faas/src/sharding.rs) *)
VARIABLES
    shard_results,   \* the argument shard_results
    top_k,           \* the argument top_k
    merged,          \* the value returned
    returned         \* merge_shard_results has returned

(* ShardRouter and the insert route of the worker (quartz-faas/src/sharding.rs,
   lib.rs) *)
VARIABLES
    shard_count,     \* ShardRouter.shard_count, the same for every router
    hashes,          \* what DefaultHasher gives for each key: key -> hash
    routes,          \* history: the get_shard calls made, with their results
    forwarded        \* history: the insert requests forwarded, with their targets

(* the vector index handlers of the server (quartz-server/src/lib.rs) *)
VARIABLES
    disk,             \* the index directories on disk: name -> what is stored
    registry,         \* AppState.vector_indexes: name -> the index in memory
    next_vector_ids,  \* AppState.next_vector_ids: name -> the next id
    srv_reply,        \* the last request answered and the answer
    srv_ops           \* history: the number of requests handled

(* the handlers of one named index running as concurrent tasks
   (quartz-server/src/lib.rs) *)
VARIABLES
    rwlock,          \* AppState.vector_indexes lock: [writer, readers]
    held_index,      \* the index and its id counter: [ids, next]
    tasks,           \* handler task -> [op, id, pc, seen, result]
    acquired         \* history: the tasks in the order they got the lock

(* StorageEngine and its cache under calls that may overlap
   (quartz-storage/src/engine.rs, cache.rs) *)
VARIABLES
    db,              \* RocksDB: key -> value
    cache,           \* CacheManager.cache: key -> value
    cache_size,      \* StorageConfig.cache_size
    engine_calls,    \* call slot -> [op, key, value, pc, found]
    expected_state,  \* history: key -> value after the calls that returned Ok
    engine_reply,    \* the last call that returned: [op, key, ret, want]
    engine_ops       \* history: the number of calls started

(* a PersistentVectorIndex that is searched, closed and opened again
   (quartz-vector/src/storage.rs) *)
VARIABLES
    phase,           \* "open", "asked", "loading", "reopened" or "failed"
    asked,           \* history: the search made before the close
    on_disk,         \* the vectors in storage: id -> vector
    to_load          \* open: the listed ids still to insert

(* one call of search_layer, loop turn by loop turn
   (quartz-faas/src/vector/hnsw.rs, quartz-vector/src/hnsw.rs) *)
VARIABLES
    sl_call,         \* the arguments: [query, entry_points, ef]
    sl_state,        \* the locals: [candidates, w or nearest, visited(, err)]
    sl_expanded,     \* history: the ids whose neighbors were checked, in order
    sl_result        \* [pc, ret, ids]: pc is "loop" until the call has returned

(* the handlers of quartz-server as concurrent tasks over both locks of
   AppState (quartz-server/src/lib.rs) *)
VARIABLES
    handlers,      \* task -> [op, pc, inst, id, ret]: one request each
    locks,         \* AppState.vector_indexes, AppState.next_vector_ids: who holds them
    live_index,    \* the entry of the name in vector_indexes: [present, ids]
    id_counter,    \* the entry of the name in next_vector_ids (0: none)
    directory,     \* the RocksDB directory of the name: [exists, ids, locked]
    acknowledged   \* history: ids of inserts answered Ok and not deleted since

(* QuartzClient::with_retry (quartz-client/src/lib.rs) *)
VARIABLES
    retry          \* one call: [max_retries, attempts, last_error, pc, ret, invoked]

hvars == <<metric, vectors, nodes, entry_point, max_layer, panicked, tombstones,
           last, calls>>
pvars == <<index_open, index_vectors, index_metadata, index_hnsw, storage, pending,
           reply, cut, clean, closed_with, ops>>
dvars == <<do_index, initialized, dirty, alarm_scheduled, alarm_set, blob, flush,
           do_reply, acked, do_ops>>
mvars == <<shard_results, top_k, merged, returned>>
rvars == <<shard_count, hashes, routes, forwarded>>
svars == <<disk, registry, next_vector_ids, srv_reply, srv_ops>>
lvars == <<rwlock, held_index, tasks, acquired>>
gvars == <<handlers, locks, live_index, id_counter, directory, acknowledged>>
kvars == <<sl_call, sl_state, sl_expanded, sl_result>>
ovars == <<phase, asked, on_disk, to_load>>
evars == <<db, cache, cache_size, engine_calls, expected_state, engine_reply,
           engine_ops>>

(* the variables of the parts added after the first four *)
nvars == <<rvars, svars, lvars, evars, ovars, kvars, gvars, retry>>

vars == <<crate, hvars, pvars, dvars, mvars, nvars>>

---------------------------------------------------------------------------
(* Bounds of the model *)

MaxCalls == 4
MaxCoord == 1
MaxLevel == 1
MaxK == 2

Ids == 1..MaxCalls
Ks == 0..MaxK
Coords == 0..MaxCoord
None == 0

(* HnswConfig (public fields, HnswIndex::with_config): small caps, with
   max_connections_layer0 = 2 * max_connections as Default and
   handle_set_config have it *)
max_connections == 1
max_connections_layer0 == max_connections * 2
ef_construction == 3
ef_search == 2

Dimension == 1
LevelCapFaas == 10
LevelCapQv == 16
F32_MAX == 1000000

Metrics == {"Cosine", "Euclidean", "DotProduct"}

Min(a, b) == IF a < b THEN a ELSE b
Max(a, b) == IF a > b THEN a ELSE b
Abs(x) == IF x < 0 THEN -x ELSE x

---------------------------------------------------------------------------
(* Arithmetic on vectors *)

RECURSIVE SumSeq(_)
SumSeq(s) == IF s = <<>> THEN 0 ELSE Head(s) + SumSeq(Tail(s))

ISqrt(n) == CHOOSE r \in 0..n : r * r <= n /\ n < (r + 1) * (r + 1)

dot_product(a, b) == SumSeq([i \in 1..Min(Len(a), Len(b)) |-> a[i] * b[i]])

magnitude(v) == ISqrt(dot_product(v, v))

euclidean_distance(a, b) ==
    ISqrt(SumSeq([i \in 1..Min(Len(a), Len(b)) |-> (a[i] - b[i]) * (a[i] - b[i])]))

normalize_vector(v) ==
    LET norm == magnitude(v)
    IN  IF norm > 0 THEN [i \in 1..Len(v) |-> v[i] \div norm] ELSE v

cosine_distance_simd(a, b) == 1 - (dot_product(a, b) \div (magnitude(a) * magnitude(b)))

dot_product_distance_simd(a, b) == -dot_product(a, b)

cosine_similarity(a, b) ==
    IF magnitude(a) = 0 \/ magnitude(b) = 0 THEN 0
    ELSE dot_product(a, b) \div (magnitude(a) * magnitude(b))

(* quartz-faas HnswIndex::distance / compute_distance *)
compute_distance(a, b) ==
    CASE metric = "Cosine" -> cosine_distance_simd(a, b)
      [] metric = "Euclidean" -> euclidean_distance(a, b)
      [] OTHER -> dot_product_distance_simd(a, b)

(* quartz-vector DistanceMetric::calculate and higher_is_better *)
calculate(a, b) ==
    CASE metric = "Cosine" -> cosine_similarity(a, b)
      [] metric = "Euclidean" -> euclidean_distance(a, b)
      [] OTHER -> dot_product(a, b)

higher_is_better == metric \in {"Cosine", "DotProduct"}

---------------------------------------------------------------------------
(* Heaps of (distance, id) and the orders the code relies on *)

TupleLess(a, b) == a[1] < b[1] \/ (a[1] = b[1] /\ a[2] < b[2])

MinTuple(S) == CHOOSE x \in S : \A y \in S : x = y \/ TupleLess(x, y)
MaxTuple(S) == CHOOSE x \in S : \A y \in S : x = y \/ TupleLess(y, x)

(* BinaryHeap::into_sorted_vec: ascending by (distance, id) *)
RECURSIVE into_sorted_vec(_)
into_sorted_vec(S) ==
    IF S = {} THEN <<>>
    ELSE LET m == MinTuple(S) IN <<m>> \o into_sorted_vec(S \ {m})

(* The iteration order of a HashSet of ids: ascending, or descending (rev) *)
RECURSIVE IterOrder(_, _)
IterOrder(S, rev) ==
    IF S = {} THEN <<>>
    ELSE LET x == IF rev THEN CHOOSE y \in S : \A z \in S : z <= y
                         ELSE CHOOSE y \in S : \A z \in S : y <= z
         IN  <<x>> \o IterOrder(S \ {x}, rev)

(* slice::sort_by_key on (dist, id) pairs by dist alone: stable *)
RECURSIVE sort_by_key(_)
sort_by_key(s) ==
    IF s = <<>> THEN <<>>
    ELSE LET m == CHOOSE i \in 1..Len(s) :
                    /\ \A j \in 1..Len(s) : s[i][1] <= s[j][1]
                    /\ \A j \in 1..(i - 1) : s[j][1] > s[i][1]
         IN  <<s[m]>> \o sort_by_key([j \in 1..(Len(s) - 1) |->
                                          IF j < m THEN s[j] ELSE s[j + 1]])

take(s, n) == [i \in 1..Min(Len(s), n) |-> s[i]]
SeqIds(s) == [i \in 1..Len(s) |-> s[i][2]]
Range(s) == {s[i] : i \in 1..Len(s)}

(* HnswNode::new *)
HnswNode(level) == [level |-> level, connections |-> [l \in 1..(level + 1) |-> {}]]

---------------------------------------------------------------------------
(* quartz-faas: HnswIndex helpers.  vs is self.vectors, ns is self.nodes. *)

(* the inner loop of search_layer_with_query over node.connections[layer] *)
RECURSIVE faas_visit_neighbors(_, _, _, _, _, _)
faas_visit_neighbors(vs, query, ef, nbrs, i, st) ==
    IF i > Len(nbrs) THEN st
    ELSE LET n == nbrs[i]
             seen == [st EXCEPT !.visited = @ \cup {n}]
         IN  IF n \in st.visited
             THEN faas_visit_neighbors(vs, query, ef, nbrs, i + 1, st)
             ELSE IF n \notin DOMAIN vs
             THEN faas_visit_neighbors(vs, query, ef, nbrs, i + 1, seen)
             ELSE LET dist == compute_distance(query, vs[n].vector)
                      f_dist == IF st.w = {} THEN F32_MAX ELSE MaxTuple(st.w)[1]
                      w1 == st.w \cup {<<dist, n>>}
                      w2 == IF Cardinality(w1) > ef THEN w1 \ {MaxTuple(w1)} ELSE w1
                  IN  IF dist < f_dist \/ Cardinality(st.w) < ef
                      THEN faas_visit_neighbors(vs, query, ef, nbrs, i + 1,
                               [seen EXCEPT !.candidates = @ \cup {<<dist, n>>},
                                            !.w = w2])
                      ELSE faas_visit_neighbors(vs, query, ef, nbrs, i + 1, seen)

(* the while loop of search_layer_with_query *)
RECURSIVE faas_greedy(_, _, _, _, _, _, _)
faas_greedy(vs, ns, query, ef, layer, rev, st) ==
    IF st.candidates = {} THEN st.w
    ELSE LET c == MinTuple(st.candidates)
             f_dist == IF st.w = {} THEN F32_MAX ELSE MaxTuple(st.w)[1]
             popped == [st EXCEPT !.candidates = @ \ {c}]
             nbrs == IF c[2] \in DOMAIN ns /\ layer < Len(ns[c[2]].connections)
                     THEN IterOrder(ns[c[2]].connections[layer + 1], rev)
                     ELSE <<>>
         IN  IF c[1] > f_dist THEN st.w
             ELSE faas_greedy(vs, ns, query, ef, layer, rev,
                              faas_visit_neighbors(vs, query, ef, nbrs, 1, popped))

search_layer_with_query(vs, ns, query, entry_points, ef, layer, rev) ==
    LET eps == {ep \in Range(entry_points) : ep \in DOMAIN vs}
        seed == {<<compute_distance(query, vs[ep].vector), ep>> : ep \in eps}
        w == faas_greedy(vs, ns, query, ef, layer, rev,
                         [candidates |-> seed, w |-> seed, visited |-> eps])
    IN  SeqIds(into_sorted_vec(w))

search_layer(vs, ns, query_id, entry_points, ef, layer, rev) ==
    search_layer_with_query(vs, ns, vs[query_id].vector, entry_points, ef, layer, rev)

select_neighbors(vs, query_id, candidates, m) ==
    LET present == SelectSeq(candidates, LAMBDA id : id \in DOMAIN vs)
        sorted == sort_by_key([i \in 1..Len(present) |->
                     <<compute_distance(vs[query_id].vector, vs[present[i]].vector),
                       present[i]>>])
    IN  SeqIds(take(sorted, m))

(* prune_connections without the cut to m: every connection is kept *)
prune_connections_keeps_all(vs, ns, node_id, layer, m, rev) ==
    IF layer >= Len(ns[node_id].connections) THEN <<>>
    ELSE select_neighbors(vs, node_id,
                          IterOrder(ns[node_id].connections[layer + 1], rev),
                          Cardinality(ns[node_id].connections[layer + 1]))

prune_connections(vs, ns, node_id, layer, m, rev) ==
    IF layer >= Len(ns[node_id].connections) THEN <<>>
    ELSE select_neighbors(vs, node_id,
                          IterOrder(ns[node_id].connections[layer + 1], rev), m)

Put(f, k, v) == [x \in DOMAIN f \cup {k} |-> IF x = k THEN v ELSE f[x]]

(* the greedy descent with ef = 1 from layer lc down to layer stop *)
RECURSIVE faas_descend(_, _, _, _, _, _, _)
faas_descend(vs, ns, query, nearest, lc, stop, rev) ==
    IF lc < stop THEN nearest
    ELSE faas_descend(vs, ns, query,
                      search_layer_with_query(vs, ns, query, nearest, 1, lc, rev),
                      lc - 1, stop, rev)

(* insert, "Add bidirectional links": connections[lc] of a node that has no
   layer lc is an index out of bounds, a panic *)
RECURSIVE faas_link(_, _, _, _, _, _)
faas_link(ns, node, id, neighbors, lc, i) ==
    IF i > Len(neighbors) THEN [nodes |-> ns, node |-> node, panic |-> FALSE]
    ELSE LET n == neighbors[i]
             node1 == [node EXCEPT !.connections[lc + 1] = @ \cup {n}]
         IN  IF n \notin DOMAIN ns
             THEN faas_link(ns, node1, id, neighbors, lc, i + 1)
             ELSE IF lc >= Len(ns[n].connections)
             THEN [nodes |-> ns, node |-> node1, panic |-> TRUE]
             ELSE faas_link([ns EXCEPT ![n].connections[lc + 1] = @ \cup {id}],
                            node1, id, neighbors, lc, i + 1)

(* insert, "Prune overconnected neighbors" *)
RECURSIVE faas_prune(_, _, _, _, _, _, _)
faas_prune(vs, ns, neighbors, lc, m, rev, i) ==
    IF i > Len(neighbors) THEN ns
    ELSE LET n == neighbors[i]
         IN  IF n \in DOMAIN ns /\ Cardinality(ns[n].connections[lc + 1]) > m
             THEN faas_prune(vs,
                      [ns EXCEPT ![n].connections[lc + 1] =
                                     Range(prune_connections(vs, ns, n, lc, m, rev))],
                      neighbors, lc, m, rev, i + 1)
             ELSE faas_prune(vs, ns, neighbors, lc, m, rev, i + 1)

(* insert, "Insert at layers from level down to 0" *)
RECURSIVE faas_insert_layers(_, _, _, _, _, _, _)
faas_insert_layers(vs, ns, node, id, nearest, lc, rev) ==
    LET candidates == search_layer(vs, ns, id, nearest, ef_construction, lc, rev)
        m == IF lc = 0 THEN max_connections_layer0 ELSE max_connections
        neighbors == select_neighbors(vs, id, candidates, m)
        linked == faas_link(ns, node, id, neighbors, lc, 1)
        pruned == faas_prune(vs, linked.nodes, neighbors, lc, m, rev, 1)
    IN  IF linked.panic THEN linked
        ELSE IF lc = 0 THEN [nodes |-> pruned, node |-> linked.node, panic |-> FALSE]
        ELSE faas_insert_layers(vs, pruned, linked.node, id, candidates, lc - 1, rev)

Call(op, id, vector, k, ret, results) ==
    [op |-> op, id |-> id, vector |-> vector, k |-> k, ret |-> ret, results |-> results]

(* A read (search, get) leaves the index as it is, so a run is followed up to
   its first read: the reads of a longer run are the reads of its index states.
   A panic ends the run. *)
ReadOps == {"search", "get"}
Live == ~panicked /\ last.op \notin ReadOps

(* HnswIndex::insert; level is what random_level returned *)
faas_insert(id, vector, level, rev) ==
    /\ crate = "quartz-faas"
    /\ Live
    /\ calls < MaxCalls
    /\ calls' = calls + 1
    /\ metric = "Cosine" => magnitude(vector) # 0
    /\ UNCHANGED <<crate, metric, max_layer, tombstones>>
    /\ IF Len(vector) # Dimension
       THEN /\ last' = Call("insert", id, <<>>, 0, "Err", <<>>)
            /\ UNCHANGED <<vectors, nodes, entry_point, panicked>>
       ELSE LET v == IF metric = "Cosine" THEN normalize_vector(vector) ELSE vector
                vs == Put(vectors, id, [vector |-> v, deleted |-> FALSE])
                entry_level == nodes[entry_point].level
                nearest == faas_descend(vs, nodes, v, <<entry_point>>,
                                        entry_level, level + 1, rev)
                r == faas_insert_layers(vs, nodes, HnswNode(level), id, nearest,
                                        level, rev)
            IN  /\ vectors' = vs
                /\ IF entry_point = None
                   THEN /\ entry_point' = id
                        /\ nodes' = Put(nodes, id, HnswNode(level))
                        /\ panicked' = FALSE
                        /\ last' = Call("insert", id, <<>>, 0, "Ok", <<>>)
                   ELSE IF r.panic
                   THEN /\ nodes' = r.nodes
                        /\ panicked' = TRUE
                        /\ last' = Call("insert", id, <<>>, 0, "Panic", <<>>)
                        /\ UNCHANGED entry_point
                   ELSE /\ entry_point' = IF level > entry_level THEN id ELSE entry_point
                        /\ nodes' = Put(r.nodes, id, r.node)
                        /\ panicked' = FALSE
                        /\ last' = Call("insert", id, <<>>, 0, "Ok", <<>>)

(* search, "Return top k results, filtering out soft-deleted vectors" *)
RECURSIVE faas_top_k(_, _, _, _, _)
faas_top_k(query, candidates, k, i, results) ==
    IF i > Len(candidates) THEN results
    ELSE IF candidates[i] \notin DOMAIN vectors \/ vectors[candidates[i]].deleted
    THEN faas_top_k(query, candidates, k, i + 1, results)
    ELSE LET pushed == Append(results,
                 [id |-> candidates[i],
                  distance |-> compute_distance(query, vectors[candidates[i]].vector)])
         IN  IF Len(pushed) >= k THEN pushed
             ELSE faas_top_k(query, candidates, k, i + 1, pushed)

(* HnswIndex::search *)
faas_search(query, k, rev) ==
    /\ crate = "quartz-faas"
    /\ Live
    /\ metric = "Cosine" => magnitude(query) # 0
    /\ UNCHANGED <<crate, metric, vectors, nodes, entry_point, max_layer, panicked,
                   tombstones, calls>>
    /\ IF Len(query) # Dimension
       THEN last' = Call("search", None, query, k, "Err", <<>>)
       ELSE IF entry_point = None
       THEN last' = Call("search", None, query, k, "Ok", <<>>)
       ELSE LET q == IF metric = "Cosine" THEN normalize_vector(query) ELSE query
                entry_level == nodes[entry_point].level
                nearest == faas_descend(vectors, nodes, q, <<entry_point>>,
                                        entry_level, 1, rev)
                candidates == search_layer_with_query(vectors, nodes, q, nearest,
                                                      Max(ef_search, k), 0, rev)
            IN  last' = Call("search", None, query, k, "Ok",
                             faas_top_k(q, candidates, k, 1, <<>>))

(* HnswIndex::get *)
faas_get(id) ==
    /\ crate = "quartz-faas"
    /\ Live
    /\ UNCHANGED <<crate, metric, vectors, nodes, entry_point, max_layer, panicked,
                   tombstones, calls>>
    /\ IF id \in DOMAIN vectors /\ ~vectors[id].deleted
       THEN last' = Call("get", id, vectors[id].vector, 0, "Some", <<>>)
       ELSE last' = Call("get", id, <<>>, 0, "None", <<>>)

(* a delete that removes the entry instead of marking it *)
soft_delete_removing(id) ==
    /\ crate = "quartz-faas"
    /\ Live
    /\ calls < MaxCalls
    /\ calls' = calls + 1
    /\ UNCHANGED <<crate, metric, nodes, entry_point, max_layer, panicked, tombstones>>
    /\ IF id \in DOMAIN vectors
       THEN /\ vectors' = [x \in DOMAIN vectors \ {id} |-> vectors[x]]
            /\ last' = Call("soft_delete", id, <<>>, 0, "true", <<>>)
       ELSE /\ last' = Call("soft_delete", id, <<>>, 0, "Err", <<>>)
            /\ UNCHANGED vectors

(* HnswIndex::soft_delete *)
soft_delete(id) ==
    /\ crate = "quartz-faas"
    /\ Live
    /\ calls < MaxCalls
    /\ calls' = calls + 1
    /\ UNCHANGED <<crate, metric, nodes, entry_point, max_layer, panicked>>
    /\ IF id \in DOMAIN vectors
       THEN IF vectors[id].deleted
            THEN /\ last' = Call("soft_delete", id, <<>>, 0, "false", <<>>)
                 /\ UNCHANGED <<vectors, tombstones>>
            ELSE /\ vectors' = [vectors EXCEPT ![id].deleted = TRUE]
                 /\ tombstones' = tombstones \cup {id}
                 /\ last' = Call("soft_delete", id, <<>>, 0, "true", <<>>)
       ELSE /\ last' = Call("soft_delete", id, <<>>, 0, "Err", <<>>)
            /\ UNCHANGED <<vectors, tombstones>>

(* HnswIndex::undelete *)
undelete(id) ==
    /\ crate = "quartz-faas"
    /\ Live
    /\ calls < MaxCalls
    /\ calls' = calls + 1
    /\ UNCHANGED <<crate, metric, nodes, entry_point, max_layer, panicked>>
    /\ tombstones' = tombstones \ {id}
    /\ IF id \in DOMAIN vectors
       THEN IF vectors[id].deleted
            THEN /\ vectors' = [vectors EXCEPT ![id].deleted = FALSE]
                 /\ last' = Call("undelete", id, <<>>, 0, "true", <<>>)
            ELSE /\ last' = Call("undelete", id, <<>>, 0, "false", <<>>)
                 /\ UNCHANGED vectors
       ELSE /\ last' = Call("undelete", id, <<>>, 0, "Err", <<>>)
            /\ UNCHANGED vectors

Vectors == {<<x>> : x \in Coords}
Levels == 0..MaxLevel
EmptyMap == [x \in {} |-> 0]

(* Option::None of a metadata, of the index of the durable object, of a stored
   value *)
NoMeta == "None"
NoIndex == [dimension |-> 0, vectors |-> EmptyMap]
NoBlob == [dimension |-> 0, vectors |-> EmptyMap]

(* no call is suspended, no call has ended, no put is in flight *)
NoCall == [op |-> "none", at |-> "idle", id |-> None, vector |-> <<>>,
           metadata |-> NoMeta, fresh |-> FALSE,
     before |-> [vectors |-> EmptyMap, metadata |-> EmptyMap]]
NoReply == [op |-> "none", id |-> None, ret |-> "none"]
NoFlush == [by |-> "none", ok |-> FALSE]
NoRequest == [op |-> "none", id |-> "", ret |-> "none"]

(* the variables of a part in the specifications of the other parts *)
HnswUnused ==
    /\ metric = "Euclidean"
    /\ vectors = EmptyMap
    /\ nodes = EmptyMap
    /\ entry_point = None
    /\ max_layer = 0
    /\ panicked = FALSE
    /\ tombstones = {}
    /\ last = Call("new", None, <<>>, 0, "Ok", <<>>)
    /\ calls = 0

PersistentUnused ==
    /\ index_open = FALSE
    /\ index_vectors = EmptyMap
    /\ index_metadata = EmptyMap
    /\ index_hnsw = EmptyMap
    /\ storage = EmptyMap
    /\ pending = NoCall
    /\ reply = NoReply
    /\ cut = NoCall
    /\ clean = TRUE
    /\ closed_with = [vectors |-> EmptyMap, metadata |-> EmptyMap]
    /\ ops = 0

DurableUnused ==
    /\ do_index = NoIndex
    /\ initialized = FALSE
    /\ dirty = FALSE
    /\ alarm_scheduled = FALSE
    /\ alarm_set = FALSE
    /\ blob = NoBlob
    /\ flush = NoFlush
    /\ do_reply = NoRequest
    /\ acked = {}
    /\ do_ops = 0

MergeUnused ==
    /\ shard_results = <<>>
    /\ top_k = 0
    /\ merged = <<>>
    /\ returned = FALSE

RouterUnused ==
    /\ shard_count = 1
    /\ hashes = EmptyMap
    /\ routes = {}
    /\ forwarded = {}

NoRequestYet == [op |-> "none", name |-> "", dimension |-> 0, metric |-> "", ret |-> "none"]

ServerUnused ==
    /\ disk = EmptyMap
    /\ registry = EmptyMap
    /\ next_vector_ids = EmptyMap
    /\ srv_reply = NoRequestYet
    /\ srv_ops = 0

LocksUnused ==
    /\ rwlock = [writer |-> 0, readers |-> {}]
    /\ held_index = [ids |-> {}, next |-> 1]
    /\ tasks = EmptyMap
    /\ acquired = <<>>

NoCallYet == [op |-> "none", key |-> "", ret |-> "none", want |-> "none"]

EngineUnused ==
    /\ db = EmptyMap
    /\ cache = EmptyMap
    /\ cache_size = 0
    /\ engine_calls = EmptyMap
    /\ expected_state = EmptyMap
    /\ engine_reply = NoCallYet
    /\ engine_ops = 0

ReopenUnused ==
    /\ phase = "unused"
    /\ asked = [op |-> "none", id |-> 0, vector |-> <<>>, k |-> 0, ret |-> "none",
                results |-> <<>>]
    /\ on_disk = EmptyMap
    /\ to_load = <<>>

SearchLayerUnused ==
    /\ sl_call = [query |-> <<>>, entry_points |-> <<>>, ef |-> 0]
    /\ sl_state = [candidates |-> {}, visited |-> {}]
    /\ sl_expanded = <<>>
    /\ sl_result = [pc |-> "unused", ret |-> "none", ids |-> <<>>]

HandlersUnused ==
    /\ handlers = <<>>
    /\ locks = <<>>
    /\ live_index = [present |-> FALSE, ids |-> {}]
    /\ id_counter = 0
    /\ directory = [exists |-> FALSE, ids |-> {}, locked |-> FALSE]
    /\ acknowledged = {}

ClientUnused ==
    retry = [max_retries |-> 0, attempts |-> 0, last_error |-> "None",
             pc |-> "unused", ret |-> "none", invoked |-> <<>>]

(* the parts added after the first four are not under test *)
LaterPartsUnused ==
    /\ RouterUnused /\ ServerUnused /\ LocksUnused /\ EngineUnused /\ ReopenUnused
    /\ SearchLayerUnused /\ HandlersUnused /\ ClientUnused

Init ==
    /\ crate \in {"quartz-faas", "quartz-vector"}
    /\ metric \in Metrics
    /\ vectors = EmptyMap
    /\ nodes = EmptyMap
    /\ entry_point = None
    /\ max_layer = 0
    /\ panicked = FALSE
    /\ tombstones = {}
    /\ last = Call("new", None, <<>>, 0, "Ok", <<>>)
    /\ calls = 0
    /\ PersistentUnused
    /\ DurableUnused
    /\ MergeUnused
    /\ LaterPartsUnused

(* the ids the index holds or still names in a connection *)
Mentioned ==
    DOMAIN vectors \cup DOMAIN nodes
    \cup UNION {UNION Range(nodes[n].connections) : n \in DOMAIN nodes}

(* the ids a call may name: those the index mentions and the lowest other one *)
KnownIds == {id \in Ids : id \in Mentioned \/ \A j \in 1..(id - 1) : j \in Mentioned}

FaasInsert ==
    \E id \in KnownIds, vector \in Vectors, rev \in BOOLEAN :
        \E level \in 0..Min(MaxLevel, LevelCapFaas) :
            faas_insert(id, vector, level, rev) /\ UNCHANGED <<pvars, dvars, mvars, nvars>>

FaasSearch ==
    \E query \in Vectors, k \in Ks, rev \in BOOLEAN :
        faas_search(query, k, rev) /\ UNCHANGED <<pvars, dvars, mvars, nvars>>
FaasGet == \E id \in KnownIds : faas_get(id) /\ UNCHANGED <<pvars, dvars, mvars, nvars>>
FaasSoftDelete ==
    \E id \in KnownIds : soft_delete(id) /\ UNCHANGED <<pvars, dvars, mvars, nvars>>
FaasUndelete ==
    \E id \in KnownIds : undelete(id) /\ UNCHANGED <<pvars, dvars, mvars, nvars>>

---------------------------------------------------------------------------
(* quartz-vector: HnswIndex.  A Result is [err, ...]. *)

(* HnswIndex::distance *)
qv_distance(vs, query, id) ==
    IF id \notin DOMAIN vs THEN [err |-> TRUE, dist |-> 0]
    ELSE LET score == calculate(query, vs[id].vector)
         IN  [err |-> FALSE, dist |-> IF higher_is_better THEN 1 - score ELSE score]

(* search_layer, "Check all neighbors" *)
RECURSIVE qv_visit_neighbors(_, _, _, _, _, _)
qv_visit_neighbors(vs, query, num_to_return, nbrs, i, st) ==
    IF i > Len(nbrs) \/ st.err THEN st
    ELSE LET n == nbrs[i]
             seen == [st EXCEPT !.visited = @ \cup {n}]
             d == qv_distance(vs, query, n)
             peek == IF st.nearest = {} THEN F32_MAX ELSE MaxTuple(st.nearest)[1]
             n1 == st.nearest \cup {<<d.dist, n>>}
             n2 == IF Cardinality(n1) > num_to_return THEN n1 \ {MaxTuple(n1)} ELSE n1
         IN  IF n \in st.visited
             THEN qv_visit_neighbors(vs, query, num_to_return, nbrs, i + 1, st)
             ELSE IF d.err THEN [seen EXCEPT !.err = TRUE]
             ELSE IF Cardinality(st.nearest) < num_to_return \/ d.dist < peek
             THEN qv_visit_neighbors(vs, query, num_to_return, nbrs, i + 1,
                      [seen EXCEPT !.candidates = @ \cup {<<d.dist, n>>},
                                   !.nearest = n2])
             ELSE qv_visit_neighbors(vs, query, num_to_return, nbrs, i + 1, seen)

(* search_layer, the while loop *)
RECURSIVE qv_greedy(_, _, _, _, _, _, _)
qv_greedy(vs, ns, query, num_to_return, layer, rev, st) ==
    IF st.candidates = {} \/ st.err THEN st
    ELSE LET c == MinTuple(st.candidates)
             popped == [st EXCEPT !.candidates = @ \ {c}]
             nbrs == IF c[2] \in DOMAIN ns /\ layer < Len(ns[c[2]].connections)
                     THEN IterOrder(ns[c[2]].connections[layer + 1], rev)
                     ELSE <<>>
         IN  IF st.nearest # {} /\ c[1] > MaxTuple(st.nearest)[1] THEN st
             ELSE qv_greedy(vs, ns, query, num_to_return, layer, rev,
                      qv_visit_neighbors(vs, query, num_to_return, nbrs, 1, popped))

(* a seeding that forgets to mark the entry points visited *)
qv_seed_unvisited(vs, query, eps) ==
    LET seed == {<<qv_distance(vs, query, ep).dist, ep>> : ep \in eps}
    IN  [candidates |-> seed, nearest |-> seed, visited |-> {},
         err |-> \E ep \in eps : qv_distance(vs, query, ep).err]

(* search_layer, "Initialize with entry points" *)
qv_seed(vs, query, eps) ==
    LET seed == {<<qv_distance(vs, query, ep).dist, ep>> : ep \in eps}
    IN  [candidates |-> seed, nearest |-> seed, visited |-> eps,
         err |-> \E ep \in eps : qv_distance(vs, query, ep).err]

(* search_layer, "Extract IDs in order of distance": the heap is read out in an
   arbitrary order and sorted by distance alone (a stable sort) *)
qv_extract(st, rev) ==
    LET heap == IterOrder({t[2] : t \in st.nearest}, rev)
        dist_of == [id \in {t[2] : t \in st.nearest} |->
                       (CHOOSE t \in st.nearest : t[2] = id)[1]]
    IN  [err |-> st.err,
         ids |-> SeqIds(sort_by_key([i \in 1..Len(heap) |-> <<dist_of[heap[i]], heap[i]>>]))]

(* HnswIndex::search_layer *)
qv_search_layer(vs, ns, query, entry_points, num_to_return, layer, rev) ==
    qv_extract(qv_greedy(vs, ns, query, num_to_return, layer, rev,
                         qv_seed(vs, query, Range(entry_points))),
               rev)

(* HnswIndex::select_neighbors *)
qv_select_neighbors(vs, candidates, m, query) ==
    IF Len(candidates) <= m THEN candidates
    ELSE LET scored == [i \in 1..Len(candidates) |->
                 <<IF qv_distance(vs, query, candidates[i]).err THEN F32_MAX
                   ELSE qv_distance(vs, query, candidates[i]).dist,
                   candidates[i]>>]
         IN  SeqIds(take(sort_by_key(scored), m))

(* the greedy descent with num_to_return = 1 from layer down to layer stop *)
RECURSIVE qv_descend(_, _, _, _, _, _, _)
qv_descend(vs, ns, query, r, layer, stop, rev) ==
    IF layer < stop \/ r.err THEN r
    ELSE qv_descend(vs, ns, query,
                    qv_search_layer(vs, ns, query, r.ids, 1, layer, rev),
                    layer - 1, stop, rev)

(* insert, "Now update neighbors": the reverse link and the pruning *)
RECURSIVE qv_update_neighbors(_, _, _, _, _, _, _, _)
qv_update_neighbors(vs, ns, id, neighbors, layer, m, rev, i) ==
    IF i > Len(neighbors) THEN ns
    ELSE LET n == neighbors[i]
             linked == [ns EXCEPT ![n].connections[layer + 1] = @ \cup {id}]
             connections == IterOrder(linked[n].connections[layer + 1], rev)
             to_keep == qv_select_neighbors(vs, connections, m, vs[n].vector)
         IN  IF n \notin DOMAIN ns \/ layer >= Len(ns[n].connections)
             THEN qv_update_neighbors(vs, ns, id, neighbors, layer, m, rev, i + 1)
             ELSE IF Cardinality(linked[n].connections[layer + 1]) <= m \/ n \notin DOMAIN vs
             THEN qv_update_neighbors(vs, linked, id, neighbors, layer, m, rev, i + 1)
             ELSE qv_update_neighbors(vs,
                      [linked EXCEPT ![n].connections[layer + 1] = Range(to_keep)],
                      id, neighbors, layer, m, rev, i + 1)

RECURSIVE qv_insert_layers(_, _, _, _, _, _, _, _)

(* insert, one layer once its neighbors are selected: "Add bidirectional
   connections", "Now update neighbors", current_nearest = candidates *)
qv_connect(vs, ns, node, id, vector, candidates, neighbors, layer, rev) ==
    LET m == IF layer = 0 THEN max_connections_layer0 ELSE max_connections
        node1 == [node EXCEPT !.connections[layer + 1] = @ \cup Range(neighbors)]
        updated == qv_update_neighbors(vs, ns, id, neighbors, layer, m, rev, 1)
    IN  IF layer = 0 THEN [err |-> FALSE, nodes |-> updated, node |-> node1]
        ELSE qv_insert_layers(vs, updated, node1, id, vector, candidates,
                              layer - 1, rev)

(* insert, one layer once search_layer has returned: "Select M neighbors" *)
qv_layer(vs, ns, node, id, vector, candidates, layer, rev) ==
    IF candidates.err THEN [err |-> TRUE, nodes |-> ns, node |-> node]
    ELSE qv_connect(vs, ns, node, id, vector, candidates.ids,
                    qv_select_neighbors(vs, candidates.ids,
                        IF layer = 0 THEN max_connections_layer0 ELSE max_connections,
                        vector),
                    layer, rev)

(* insert, "For each layer from target down to 0" *)
qv_insert_layers(vs, ns, node, id, vector, current_nearest, layer, rev) ==
    qv_layer(vs, ns, node, id, vector,
             qv_search_layer(vs, ns, vector, current_nearest, ef_construction,
                             layer, rev),
             layer, rev)

(* insert after the first element: the descent, then the layers *)
qv_insert_graph(vs, ns, node, id, vector, nearest, level, rev) ==
    IF nearest.err THEN [err |-> TRUE, nodes |-> ns, node |-> node]
    ELSE qv_insert_layers(vs, ns, node, id, vector, nearest.ids, level, rev)

(* insert, "Update entry point if this node is at a higher layer", or the error *)
qv_insert_end(id, level, r) ==
    IF r.err
    THEN /\ nodes' = r.nodes
         /\ last' = Call("insert", id, <<>>, 0, "Err", <<>>)
         /\ UNCHANGED <<entry_point, max_layer>>
    ELSE /\ max_layer' = IF level > max_layer THEN level ELSE max_layer
         /\ entry_point' = IF level > max_layer THEN id ELSE entry_point
         /\ nodes' = Put(r.nodes, id, r.node)
         /\ last' = Call("insert", id, <<>>, 0, "Ok", <<>>)

(* insert after "Store vector data"; vs is the vectors with the new one *)
qv_insert_stored(id, vector, level, rev, vs) ==
    /\ vectors' = vs
    /\ IF entry_point = None
       THEN /\ entry_point' = id
            /\ max_layer' = level
            /\ nodes' = Put(nodes, id, HnswNode(level))
            /\ last' = Call("insert", id, <<>>, 0, "Ok", <<>>)
       ELSE qv_insert_end(id, level,
                qv_insert_graph(vs, nodes, HnswNode(level), id, vector,
                    qv_descend(vs, nodes, vector,
                               [err |-> FALSE, ids |-> <<entry_point>>],
                               max_layer, level + 1, rev),
                    level, rev))

(* HnswIndex::insert; level is what select_layer returned *)
qv_insert(id, vector, level, rev) ==
    /\ crate = "quartz-vector"
    /\ Live
    /\ calls < MaxCalls
    /\ calls' = calls + 1
    /\ UNCHANGED <<crate, metric, panicked, tombstones>>
    /\ qv_insert_stored(id, vector, level, rev,
                        Put(vectors, id, [vector |-> vector, deleted |-> FALSE]))

(* impl Ord for SearchResult: by score, highest first; Vec::sort is stable *)
qv_sort(results) ==
    SeqIds(sort_by_key([i \in 1..Len(results) |-> <<-results[i].score, results[i]>>]))

(* search, "Return top k results" and "Sort by score" *)
qv_top_k(query, k, found) ==
    IF found.err THEN last' = Call("search", None, query, k, "Err", <<>>)
    ELSE LET top == SelectSeq(take(found.ids, k), LAMBDA id : id \in DOMAIN vectors)
             results == [i \in 1..Len(top) |->
                            [id |-> top[i],
                             score |-> calculate(query, vectors[top[i]].vector)]]
         IN  last' = Call("search", None, query, k, "Ok", qv_sort(results))

(* search, "Search layer 0 with ef_search" *)
qv_search_layer0(query, k, rev, nearest) ==
    IF nearest.err THEN [err |-> TRUE, ids |-> <<>>]
    ELSE qv_search_layer(vectors, nodes, query, nearest.ids, Max(ef_search, k), 0, rev)

(* HnswIndex::search *)
qv_search(query, k, rev) ==
    /\ crate = "quartz-vector"
    /\ Live
    /\ UNCHANGED <<crate, metric, vectors, nodes, entry_point, max_layer, panicked,
                   tombstones, calls>>
    /\ IF entry_point = None
       THEN last' = Call("search", None, query, k, "Ok", <<>>)
       ELSE qv_top_k(query, k,
                qv_search_layer0(query, k, rev,
                    qv_descend(vectors, nodes, query,
                               [err |-> FALSE, ids |-> <<entry_point>>],
                               max_layer, 1, rev)))

Remove(f, k) == [x \in DOMAIN f \ {k} |-> f[x]]

(* delete, "Remove all connections to this node": pairs is the (layer, neighbor)
   pairs in the order the loops visit them *)
RECURSIVE qv_unlink(_, _, _, _)
qv_unlink(ns, id, pairs, i) ==
    IF i > Len(pairs) THEN [nodes |-> ns, panic |-> FALSE]
    ELSE LET layer == pairs[i][1]
             n == pairs[i][2]
         IN  IF n \notin DOMAIN ns THEN qv_unlink(ns, id, pairs, i + 1)
             ELSE IF layer >= Len(ns[n].connections) THEN [nodes |-> ns, panic |-> TRUE]
             ELSE qv_unlink([ns EXCEPT ![n].connections[layer + 1] = @ \ {id}],
                            id, pairs, i + 1)

RECURSIVE qv_pairs(_, _, _)
qv_pairs(node, layer, rev) ==
    IF layer > node.level THEN <<>>
    ELSE LET nbrs == IterOrder(node.connections[layer + 1], rev)
         IN  [i \in 1..Len(nbrs) |-> <<layer, nbrs[i]>>] \o qv_pairs(node, layer + 1, rev)

MaxLevelOf(ns) ==
    IF DOMAIN ns = {} THEN 0
    ELSE CHOOSE l \in {ns[x].level : x \in DOMAIN ns} :
             \A x \in DOMAIN ns : ns[x].level <= l

(* HnswIndex::delete; first is the key nodes.keys().next() yields *)
qv_delete(id, first, rev) ==
    /\ crate = "quartz-vector"
    /\ Live
    /\ calls < MaxCalls
    /\ calls' = calls + 1
    /\ UNCHANGED <<crate, metric, tombstones>>
    /\ IF id \notin DOMAIN nodes
       THEN /\ last' = Call("delete", id, <<>>, 0, "Err", <<>>)
            /\ UNCHANGED <<vectors, nodes, entry_point, max_layer, panicked>>
       ELSE LET r == qv_unlink(Remove(nodes, id), id, qv_pairs(nodes[id], 0, rev), 1)
            IN  /\ nodes' = r.nodes
                /\ panicked' = r.panic
                /\ IF r.panic
                   THEN /\ last' = Call("delete", id, <<>>, 0, "Panic", <<>>)
                        /\ UNCHANGED <<vectors, entry_point, max_layer>>
                   ELSE /\ last' = Call("delete", id, <<>>, 0, "Ok", <<>>)
                        /\ vectors' = Remove(vectors, id)
                        /\ IF entry_point = id
                           THEN /\ entry_point' = first
                                /\ max_layer' = MaxLevelOf(r.nodes)
                           ELSE UNCHANGED <<entry_point, max_layer>>

QvInsert ==
    \E id \in KnownIds, vector \in Vectors, rev \in BOOLEAN :
        \E level \in 0..Min(MaxLevel, LevelCapQv) :
            qv_insert(id, vector, level, rev) /\ UNCHANGED <<pvars, dvars, mvars, nvars>>
QvSearch ==
    \E query \in Vectors, k \in Ks, rev \in BOOLEAN :
        qv_search(query, k, rev) /\ UNCHANGED <<pvars, dvars, mvars, nvars>>
QvDelete ==
    \E id \in KnownIds, rev \in BOOLEAN :
        \E first \in IF DOMAIN nodes \ {id} = {} THEN {None} ELSE DOMAIN nodes \ {id} :
            qv_delete(id, first, rev) /\ UNCHANGED <<pvars, dvars, mvars, nvars>>

Next ==
    \/ FaasInsert \/ FaasSearch \/ FaasGet \/ FaasSoftDelete \/ FaasUndelete
    \/ QvInsert \/ QvSearch \/ QvDelete

Spec == Init /\ [][Next]_vars

---------------------------------------------------------------------------
(* The claims *)

InsertCompleted == last.op = "insert" /\ last.ret = "Ok"

Cap(layer) == IF layer = 0 THEN max_connections_layer0 ELSE max_connections

HasLayer(id, layer) == id \in DOMAIN nodes /\ layer < Len(nodes[id].connections)

Conn(id, layer) == nodes[id].connections[layer + 1]

Layers(id) == 0..(Len(nodes[id].connections) - 1)

(* C1: after every completed insert every edge is bidirectional within its
   layer: if v is in connections[l] of u then u is in connections[l] of v. *)
C1_EdgesBidirectional ==
    InsertCompleted =>
        \A u \in DOMAIN nodes : \A l \in Layers(u) : \A v \in Conn(u, l) :
            HasLayer(v, l) /\ u \in Conn(v, l)

(* C2: insert never panics: it returns Ok or a typed Err, whatever level the
   new node gets. *)
C2_InsertNeverPanics ==
    last.op = "insert" => last.ret \in {"Ok", "Err"}

(* C3: once soft_delete(id) has returned true and until undelete(id), get(id)
   returns None and no search result contains id. *)
C3_DeletedStaysHidden ==
    /\ (last.op = "get" /\ last.id \in tombstones) => last.ret = "None"
    /\ last.op = "search" =>
           \A i \in 1..Len(last.results) : last.results[i].id \notin tombstones

(* C4: after every completed insert every node has at most max_connections
   neighbours in each layer >= 1 and at most max_connections_layer0 in layer 0. *)
C4_ConnectionCaps ==
    InsertCompleted =>
        \A u \in DOMAIN nodes : \A l \in Layers(u) :
            Cardinality(Conn(u, l)) <= Cap(l)

(* C4's case: the insert linked the new node to a neighbour that was full, and
   the neighbour was pruned back to its cap (dropping the new node) *)
C4_PrunedNeighbour ==
    /\ InsertCompleted
    /\ \E u \in DOMAIN nodes :
           /\ u # last.id
           /\ u \in Conn(last.id, 0)
           /\ last.id \notin Conn(u, 0)
           /\ Cardinality(Conn(u, 0)) = max_connections_layer0

(* C5: in every state of a non-empty index the level of the entry point is the
   maximum level over all nodes. *)
C5_EntryPointIsTop ==
    (~panicked /\ DOMAIN nodes # {}) =>
        /\ entry_point \in DOMAIN nodes
        /\ nodes[entry_point].level = MaxLevelOf(nodes)

(* the nodes reached from the set S by following layer-0 connections *)
RECURSIVE Reachable0(_)
Reachable0(S) ==
    LET step == S \cup UNION {Conn(u, 0) \cap DOMAIN nodes : u \in S}
    IN  IF step = S THEN S ELSE Reachable0(step)

(* C6: whenever the index is non-empty every node is reachable from the entry
   point by following layer-0 connections. *)
C6_Layer0Connected ==
    (~panicked /\ DOMAIN nodes # {}) =>
        /\ entry_point \in DOMAIN nodes
        /\ Reachable0({entry_point}) = DOMAIN nodes

(* the vector insert stores for v, and search looks for *)
Stored(v) ==
    IF crate = "quartz-faas" /\ metric = "Cosine" THEN normalize_vector(v) ELSE v

(* the distance of a search result: quartz-faas reports it, quartz-vector
   reports the metric's score, which HnswIndex::distance turns into a distance *)
ResultDistance(r) ==
    IF crate = "quartz-faas" THEN r.distance
    ELSE IF higher_is_better THEN 1 - r.score ELSE r.score

SearchedStoredVector ==
    /\ last.op = "search"
    /\ \E id \in DOMAIN vectors :
           ~vectors[id].deleted /\ vectors[id].vector = Stored(last.vector)

(* C7: for an inserted, not deleted vector v, search(v, 1) returns a non-empty
   result whose first entry is an inserted id at distance below 0.01 from v. *)
C7_SelfSearchFindsItself ==
    (SearchedStoredVector /\ last.k = 1) =>
        /\ last.ret = "Ok"
        /\ Len(last.results) >= 1
        /\ last.results[1].id \in DOMAIN vectors
        /\ 100 * ResultDistance(last.results[1]) < 1

(* C8: the list search(q, k) returns is ordered by increasing distance to q. *)
C8_ResultsAscending ==
    last.op = "search" =>
        \A i \in 2..Len(last.results) :
            ResultDistance(last.results[i - 1]) <= ResultDistance(last.results[i])

(* C9: search(q, k) returns at most k results, for every k >= 0. *)
C9_AtMostK ==
    last.op = "search" => Len(last.results) <= last.k

(* C10: insert on an id that is already in the index returns an error and
   leaves vectors, nodes, connection sets and the entry point unchanged. *)
C10_DuplicateRejected ==
    [][(last'.op = "insert" /\ calls' = calls + 1 /\ last'.id \in DOMAIN vectors)
           => (last'.ret = "Err" /\ UNCHANGED <<vectors, nodes, entry_point>>)]_vars

---------------------------------------------------------------------------
(* quartz-vector: PersistentVectorIndex over VectorIndex and StorageEngine.

   A call runs up to its first storage await in one step and is then suspended
   (pending.at names the await); the storage operation ends in a later step,
   with success or with an error.  A suspended call can be cancelled (its future
   is dropped) and the process can stop at any point.  The HnswIndex inside
   VectorIndex is the map of the vectors it holds.  The StorageEngine is what
   RocksDB holds: a put or a delete that returns an error leaves it as it was. *)

MaxOps == 3

(* list_vector_ids: "Try IDs from 0 to 100000", "if we haven't found anything
   in the first 1000, stop" *)
ScanLimit == 100000
EarlyStop == 1000

(* ids a caller may use: one the scan finds, one past the early stop and one
   past the scan *)
VectorIds == {0, EarlyStop + 2, ScanLimit}
Metadatas == {NoMeta, "meta"}
(* vectors of the index dimension and one that is longer *)
AnyVectors == Vectors \cup {<<0, 0>>}

vector_key(id) == <<"__vector__", id>>
metadata_key(id) == <<"__vector_meta__", id>>

(* the in-memory index a reader sees *)
InMemory == [vectors |-> index_vectors, metadata |-> index_metadata]

Reply(op, id, ret) == [op |-> op, id |-> id, ret |-> ret]

(* VectorIndex::insert_with_metadata after the dimension check *)
index_insert_with_metadata(id, vector, metadata) ==
    /\ index_hnsw' = Put(index_hnsw, id, vector)
    /\ index_vectors' = Put(index_vectors, id, vector)
    /\ index_metadata' = IF metadata # NoMeta THEN Put(index_metadata, id, metadata)
                         ELSE index_metadata

(* insert_with_metadata as it would be without the dimension check *)
insert_without_dimension_check(id, vector, metadata) ==
    /\ crate = "quartz-vector/storage"
    /\ index_open
    /\ pending.at = "idle"
    /\ ops < MaxOps
    /\ ops' = ops + 1
    /\ cut' = NoCall
    /\ UNCHANGED <<crate, nvars, hvars, dvars, mvars, index_open, storage, clean,
                   closed_with>>
    /\ index_insert_with_metadata(id, vector, metadata)
    /\ pending' = [op |-> "insert", at |-> "put_vector", id |-> id,
                   vector |-> vector, metadata |-> metadata, fresh |-> FALSE,
                   before |-> InMemory]
    /\ reply' = Reply("insert", id, "pending")

(* PersistentVectorIndex::insert_with_metadata up to storage.put(&vector_key) *)
insert_with_metadata(id, vector, metadata) ==
    /\ crate = "quartz-vector/storage"
    /\ index_open
    /\ pending.at = "idle"
    /\ ops < MaxOps
    /\ ops' = ops + 1
    /\ cut' = NoCall
    /\ UNCHANGED <<crate, nvars, hvars, dvars, mvars, index_open, storage, clean,
                   closed_with>>
    /\ IF Len(vector) # Dimension
       THEN /\ reply' = Reply("insert", id, "DimensionMismatch")
            /\ UNCHANGED <<index_vectors, index_metadata, index_hnsw, pending>>
       ELSE /\ index_insert_with_metadata(id, vector, metadata)
            /\ pending' = [op |-> "insert", at |-> "put_vector", id |-> id,
                           vector |-> vector, metadata |-> metadata,
                           fresh |-> /\ id \notin DOMAIN index_vectors
                                     /\ vector_key(id) \notin DOMAIN storage
                                     /\ metadata_key(id) \notin DOMAIN storage,
                           before |-> InMemory]
            /\ reply' = Reply("insert", id, "pending")

(* insert_with_metadata from storage.put(&vector_key).await on *)
put_vector ==
    \E ok \in BOOLEAN :
    /\ crate = "quartz-vector/storage"
    /\ pending.at = "put_vector"
    /\ UNCHANGED <<crate, nvars, hvars, dvars, mvars, index_open, index_vectors,
                   index_metadata, index_hnsw, cut, closed_with, ops>>
    /\ IF ~ok
       THEN /\ reply' = Reply("insert", pending.id, "StorageError")
            /\ pending' = NoCall
            /\ clean' = FALSE
            /\ UNCHANGED storage
       ELSE /\ storage' = Put(storage, vector_key(pending.id), pending.vector)
            /\ UNCHANGED clean
            /\ IF pending.metadata # NoMeta
               THEN /\ pending' = [pending EXCEPT !.at = "put_metadata"]
                    /\ UNCHANGED reply
               ELSE /\ pending' = NoCall
                    /\ reply' = Reply("insert", pending.id, "Ok")

(* insert_with_metadata from storage.put(&meta_key).await on *)
put_metadata ==
    \E ok \in BOOLEAN :
    /\ crate = "quartz-vector/storage"
    /\ pending.at = "put_metadata"
    /\ UNCHANGED <<crate, nvars, hvars, dvars, mvars, index_open, index_vectors,
                   index_metadata, index_hnsw, cut, closed_with, ops>>
    /\ pending' = NoCall
    /\ IF ok
       THEN /\ storage' = Put(storage, metadata_key(pending.id), pending.metadata)
            /\ reply' = Reply("insert", pending.id, "Ok")
            /\ UNCHANGED clean
       ELSE /\ reply' = Reply("insert", pending.id, "StorageError")
            /\ clean' = FALSE
            /\ UNCHANGED storage

(* PersistentVectorIndex::delete up to storage.delete(&vector_key), with
   VectorIndex::delete *)
delete ==
    \E id \in VectorIds :
    /\ crate = "quartz-vector/storage"
    /\ index_open
    /\ pending.at = "idle"
    /\ ops < MaxOps
    /\ ops' = ops + 1
    /\ cut' = NoCall
    /\ UNCHANGED <<crate, nvars, hvars, dvars, mvars, index_open, storage, clean,
                   closed_with>>
    /\ IF id \notin DOMAIN index_vectors
       THEN /\ reply' = Reply("delete", id, "NotFound")
            /\ UNCHANGED <<index_vectors, index_metadata, index_hnsw, pending>>
       ELSE /\ index_hnsw' = Remove(index_hnsw, id)
            /\ index_vectors' = Remove(index_vectors, id)
            /\ index_metadata' = Remove(index_metadata, id)
            /\ pending' = [NoCall EXCEPT !.op = "delete", !.at = "delete_vector",
                                         !.id = id, !.before = InMemory]
            /\ reply' = Reply("delete", id, "pending")

(* delete from storage.delete(&vector_key).await on *)
delete_vector ==
    \E ok \in BOOLEAN :
    /\ crate = "quartz-vector/storage"
    /\ pending.at = "delete_vector"
    /\ UNCHANGED <<crate, nvars, hvars, dvars, mvars, index_open, index_vectors,
                   index_metadata, index_hnsw, cut, closed_with, ops>>
    /\ IF ok
       THEN /\ storage' = Remove(storage, vector_key(pending.id))
            /\ pending' = [pending EXCEPT !.at = "delete_metadata"]
            /\ UNCHANGED <<reply, clean>>
       ELSE /\ reply' = Reply("delete", pending.id, "StorageError")
            /\ pending' = NoCall
            /\ clean' = FALSE
            /\ UNCHANGED storage

(* delete from "let _ = self.storage.delete(&meta_key).await" on: the error is
   ignored *)
delete_metadata ==
    \E ok \in BOOLEAN :
    /\ crate = "quartz-vector/storage"
    /\ pending.at = "delete_metadata"
    /\ UNCHANGED <<crate, nvars, hvars, dvars, mvars, index_open, index_vectors,
                   index_metadata, index_hnsw, cut, closed_with, ops>>
    /\ storage' = IF ok THEN Remove(storage, metadata_key(pending.id)) ELSE storage
    /\ clean' = (clean /\ ok)
    /\ pending' = NoCall
    /\ reply' = Reply("delete", pending.id, "Ok")

(* the caller drops the future of the suspended call (insert_vector_handler
   when the client goes away): the call never resumes.  cut is the call that
   was cut short, as long as no call has been made since. *)
cancel ==
    /\ crate = "quartz-vector/storage"
    /\ pending.at # "idle"
    /\ UNCHANGED <<crate, nvars, hvars, dvars, mvars, index_open, index_vectors,
                   index_metadata, index_hnsw, storage, closed_with, ops>>
    /\ cut' = pending
    /\ pending' = NoCall
    /\ clean' = FALSE
    /\ reply' = Reply(pending.op, pending.id, "cancelled")

(* the index is dropped: closed between calls, or the process stops with a call
   suspended.  RocksDB keeps what was written. *)
close ==
    /\ crate = "quartz-vector/storage"
    /\ index_open
    /\ UNCHANGED <<crate, nvars, hvars, dvars, mvars, storage, ops>>
    /\ index_open' = FALSE
    /\ closed_with' = InMemory
    /\ index_vectors' = EmptyMap
    /\ index_metadata' = EmptyMap
    /\ index_hnsw' = EmptyMap
    /\ cut' = IF pending.at # "idle" THEN pending ELSE cut
    /\ clean' = (clean /\ pending.at = "idle")
    /\ pending' = NoCall
    /\ reply' = Reply("close", None, "Ok")

(* PersistentVectorIndex::list_vector_ids: the scan of 0..ScanLimit finds every
   stored id below ScanLimit unless it breaks at EarlyStop + 1, which it does
   when it has found nothing up to there and that id is not stored either *)
list_vector_ids(st) ==
    LET stored == {id \in VectorIds : id < ScanLimit /\ vector_key(id) \in DOMAIN st}
    IN  IF \E id \in stored : id <= EarlyStop + 1 THEN stored ELSE {}

(* PersistentVectorIndex::open: every listed id is inserted with the stored
   vector and, if there is one, the stored metadata *)
open ==
    /\ crate = "quartz-vector/storage"
    /\ ~index_open
    /\ UNCHANGED <<crate, nvars, hvars, dvars, mvars, storage, pending, cut, clean,
                   closed_with, ops>>
    /\ index_open' = TRUE
    /\ LET ids == list_vector_ids(storage)
           loaded == [id \in ids |-> storage[vector_key(id)]]
       IN  /\ index_hnsw' = loaded
           /\ index_vectors' = loaded
           /\ index_metadata' = [id \in {x \in ids : metadata_key(x) \in DOMAIN storage}
                                    |-> storage[metadata_key(id)]]
    /\ reply' = Reply("open", None, "Ok")

(* PersistentVectorIndex::create *)
InitPersistent ==
    /\ crate = "quartz-vector/storage"
    /\ HnswUnused
    /\ LaterPartsUnused
    /\ DurableUnused
    /\ MergeUnused
    /\ index_open = TRUE
    /\ index_vectors = EmptyMap
    /\ index_metadata = EmptyMap
    /\ index_hnsw = EmptyMap
    /\ storage = EmptyMap
    /\ pending = NoCall
    /\ reply = NoReply
    /\ cut = NoCall
    /\ clean = TRUE
    /\ closed_with = [vectors |-> EmptyMap, metadata |-> EmptyMap]
    /\ ops = 0

PvInsert ==
    \E id \in VectorIds, vector \in AnyVectors, metadata \in Metadatas :
        insert_with_metadata(id, vector, metadata)

NextPersistent ==
    \/ PvInsert \/ put_vector \/ put_metadata
    \/ delete \/ delete_vector \/ delete_metadata
    \/ cancel \/ close \/ open

SpecPersistent == InitPersistent /\ [][NextPersistent]_vars

---------------------------------------------------------------------------
(* Claims about PersistentVectorIndex, checked under SpecPersistent *)

(* C11: an insert of a vector whose length differs from the index dimension
   returns DimensionMismatch, and the in-memory index (vectors, metadata,
   graph) and the KV store are as before the call. *)
C11_DimensionMismatchChangesNothing ==
    [][\A id \in VectorIds, vector \in AnyVectors, metadata \in Metadatas :
          (Len(vector) # Dimension /\ insert_with_metadata(id, vector, metadata))
          => /\ reply'.ret = "DimensionMismatch"
             /\ UNCHANGED <<index_vectors, index_metadata, index_hnsw, storage>>]_vars

(* a vector of the wrong length was rejected by an index that holds vectors *)
C11_RejectedOnFilledIndex ==
    /\ reply.op = "insert"
    /\ reply.ret = "DimensionMismatch"
    /\ index_vectors # EmptyMap
    /\ storage # EmptyMap

(* C12: if a KV-store put or delete fails during an insert or a delete, the
   call returns the storage error and the in-memory index is the same as
   before the call. *)
C12_StorageErrorLeavesMemory ==
    [][(pending.at # "idle" /\ reply'.ret = "StorageError")
       => InMemory' = pending.before]_vars

(* every effect of the insert c is there: the in-memory entry, the stored
   vector and the stored metadata *)
AllApplied(c) ==
    /\ c.id \in DOMAIN index_vectors
    /\ index_vectors[c.id] = c.vector
    /\ vector_key(c.id) \in DOMAIN storage
    /\ c.metadata # NoMeta
       => /\ c.id \in DOMAIN index_metadata
          /\ metadata_key(c.id) \in DOMAIN storage

(* no effect of the insert c is there *)
NoneApplied(c) ==
    /\ c.id \notin DOMAIN index_vectors
    /\ c.id \notin DOMAIN index_metadata
    /\ vector_key(c.id) \notin DOMAIN storage
    /\ metadata_key(c.id) \notin DOMAIN storage

(* C13: an insert is all-or-nothing: when an insert of a new id was cancelled
   or stopped by a crash at a KV suspension point, the index read afterwards
   (as it is, or reopened) shows either all of its effects or none. *)
C13_InsertAllOrNothing ==
    (index_open /\ pending.at = "idle" /\ cut.op = "insert" /\ cut.fresh)
    => (AllApplied(cut) \/ NoneApplied(cut))

(* PersistentVectorIndex::len *)
len == Cardinality(DOMAIN index_vectors)

(* C14: persistence round trip: after inserts with any ids, possibly followed
   by deletes, all of them completed without error, closing and reopening
   the index yields every surviving id with the same vector and metadata, and
   len() is the number of surviving ids. *)
C14_RoundTrip ==
    (reply.op = "open" /\ clean)
    => /\ InMemory = closed_with
       /\ len = Cardinality(DOMAIN closed_with.vectors)

---------------------------------------------------------------------------
(* quartz-faas: the VectorIndexObject durable object.

   The index is its dimension and its entries (id -> vector and deleted flag);
   a vector is its length and its content.  HnswIndex derives Serialize and
   Deserialize over all its fields, so the blob under __hnsw_index__ is the
   index it was written from.  A storage put takes effect, or fails, when it is
   issued; the handler that awaits it resumes in a later step, and requests
   can be handled in between.  set_alarm can fail like any storage call, and
   its result is discarded by the code.  The object can be evicted from memory
   or stop at any point: its fields are then reset by new, and its storage (the
   blob and the alarm) stays. *)

MaxRequests == 4
MaxBatch == 2

(* init_index and handle_set_config: "384 dimensions for embeddings" *)
DefaultDimension == 384
OtherDimension == 2

RequestIds == {"", "a", "b"}
RequestVectors == [len : {0, DefaultDimension, OtherDimension}, data : {0, 1}]
BatchItems == [id : {"a", "b"}, vector : [len : {DefaultDimension, OtherDimension},
                                           data : {0}]]
Batches == UNION {[1..n -> BatchItems] : n \in 1..MaxBatch}

(* HnswIndex::with_config, as far as the object uses it *)
HnswIndex_with_config(dimension) == [dimension |-> dimension, vectors |-> EmptyMap]

(* VectorIndexObject::init_index *)
init_index(get_ok) ==
    IF get_ok /\ blob # NoBlob THEN blob ELSE HnswIndex_with_config(DefaultDimension)

(* fetch: "Initialize index on first request" *)
fetch_index(get_ok) == IF initialized THEN do_index ELSE init_index(get_ok)

(* HnswIndex::insert: Ok or Err *)
hnsw_insert_ok(index, vector) == vector.len = index.dimension

hnsw_insert(index, id, vector) ==
    [index EXCEPT !.vectors = Put(index.vectors, id,
                                  [vector |-> vector, deleted |-> FALSE])]

(* HnswIndex::get *)
hnsw_get(index, id) ==
    IF id \in DOMAIN index.vectors /\ ~index.vectors[id].deleted
    THEN "Some" ELSE "None"

(* "Mark dirty and schedule alarm if not already scheduled": set_alarm sets the
   object's alarm unless it fails *)
mark_dirty(alarm_ok) ==
    /\ dirty' = TRUE
    /\ alarm_scheduled' = TRUE
    /\ alarm_set' = IF alarm_scheduled THEN alarm_set ELSE (alarm_set \/ alarm_ok)

DoReply(op, id, ret) == [op |-> op, id |-> id, ret |-> ret]

(* a request is taken by fetch *)
fetch ==
    /\ crate = "quartz-faas/durable"
    /\ do_ops < MaxRequests
    /\ do_ops' = do_ops + 1
    /\ initialized' = TRUE
    /\ UNCHANGED <<crate, nvars, hvars, pvars, mvars>>

(* VectorIndexObject::handle_insert *)
handle_insert ==
    \E id \in RequestIds, vector \in RequestVectors, get_ok \in BOOLEAN,
       alarm_ok \in BOOLEAN :
    /\ fetch
    /\ UNCHANGED <<blob, flush>>
    /\ IF id = "" \/ vector.len = 0 \/ ~hnsw_insert_ok(fetch_index(get_ok), vector)
       THEN /\ do_index' = fetch_index(get_ok)
            /\ do_reply' = DoReply("insert", id, "400")
            /\ UNCHANGED <<dirty, alarm_scheduled, alarm_set, acked>>
       ELSE /\ do_index' = hnsw_insert(fetch_index(get_ok), id, vector)
            /\ mark_dirty(alarm_ok)
            /\ acked' = acked \cup {id}
            /\ do_reply' = DoReply("insert", id, "Ok")

(* handle_batch_insert: the items inserted one after the other, the failed
   ones skipped *)
RECURSIVE batch_insert(_, _, _)
batch_insert(index, items, i) ==
    IF i > Len(items) THEN index
    ELSE IF hnsw_insert_ok(index, items[i].vector)
         THEN batch_insert(hnsw_insert(index, items[i].id, items[i].vector),
                           items, i + 1)
         ELSE batch_insert(index, items, i + 1)

(* the ids of the items whose insert succeeds: the dimension is the same for
   all of them *)
batch_inserted(index, items) ==
    {items[i].id : i \in {j \in 1..Len(items) : hnsw_insert_ok(index, items[j].vector)}}

(* VectorIndexObject::handle_batch_insert *)
handle_batch_insert ==
    \E items \in Batches, get_ok \in BOOLEAN, alarm_ok \in BOOLEAN :
    /\ fetch
    /\ UNCHANGED <<blob, flush>>
    /\ do_index' = batch_insert(fetch_index(get_ok), items, 1)
    /\ acked' = acked \cup batch_inserted(fetch_index(get_ok), items)
    /\ IF batch_inserted(fetch_index(get_ok), items) # {}
       THEN mark_dirty(alarm_ok)
       ELSE UNCHANGED <<dirty, alarm_scheduled, alarm_set>>
    /\ do_reply' = DoReply("batch-insert", "",
                           IF \A i \in 1..Len(items) :
                                 hnsw_insert_ok(fetch_index(get_ok), items[i].vector)
                           THEN "Ok" ELSE "partial")

(* VectorIndexObject::handle_get *)
handle_get ==
    \E id \in RequestIds, get_ok \in BOOLEAN :
    /\ fetch
    /\ UNCHANGED <<blob, flush, dirty, alarm_scheduled, alarm_set, acked>>
    /\ do_index' = fetch_index(get_ok)
    /\ do_reply' = DoReply("get", id,
                           IF id = "" THEN "400" ELSE hnsw_get(fetch_index(get_ok), id))

(* VectorIndexObject::handle_delete with HnswIndex::soft_delete *)
handle_delete ==
    \E id \in RequestIds, get_ok \in BOOLEAN, alarm_ok \in BOOLEAN :
    /\ fetch
    /\ UNCHANGED <<blob, flush>>
    /\ IF id = ""
       THEN /\ do_index' = fetch_index(get_ok)
            /\ do_reply' = DoReply("delete", id, "400")
            /\ UNCHANGED <<dirty, alarm_scheduled, alarm_set, acked>>
       ELSE IF id \notin DOMAIN fetch_index(get_ok).vectors
       THEN /\ do_index' = fetch_index(get_ok)
            /\ do_reply' = DoReply("delete", id, "404")
            /\ UNCHANGED <<dirty, alarm_scheduled, alarm_set, acked>>
       ELSE IF fetch_index(get_ok).vectors[id].deleted
       THEN /\ do_index' = fetch_index(get_ok)
            /\ do_reply' = DoReply("delete", id, "already deleted")
            /\ UNCHANGED <<dirty, alarm_scheduled, alarm_set, acked>>
       ELSE /\ do_index' = [fetch_index(get_ok) EXCEPT !.vectors[id].deleted = TRUE]
            /\ mark_dirty(alarm_ok)
            /\ acked' = acked \ {id}
            /\ do_reply' = DoReply("delete", id, "Ok")

(* VectorIndexObject::handle_set_config: the index is replaced by an empty one
   and persist_index is called; its error is logged only *)
handle_set_config ==
    \E dimension \in {DefaultDimension, OtherDimension}, put_ok \in BOOLEAN :
    /\ fetch
    /\ UNCHANGED <<flush, dirty, alarm_scheduled, alarm_set>>
    /\ do_index' = HnswIndex_with_config(dimension)
    /\ blob' = IF put_ok THEN HnswIndex_with_config(dimension) ELSE blob
    /\ acked' = {}
    /\ do_reply' = DoReply("config", "", "Ok")

(* VectorIndexObject::alarm up to persist_index().await: the alarm that fires
   is no longer pending *)
alarm(put_ok) ==
    /\ crate = "quartz-faas/durable"
    /\ alarm_set
    /\ flush.by = "none"
    /\ alarm_set' = FALSE
    /\ UNCHANGED <<crate, nvars, hvars, pvars, mvars, do_index, initialized, dirty,
                   do_reply, acked, do_ops>>
    /\ IF dirty
       THEN /\ blob' = IF put_ok /\ do_index # NoIndex THEN do_index ELSE blob
            /\ flush' = [by |-> "alarm", ok |-> put_ok]
            /\ UNCHANGED alarm_scheduled
       ELSE /\ alarm_scheduled' = FALSE
            /\ UNCHANGED <<blob, flush>>

(* VectorIndexObject::alarm from persist_index().await on *)
alarm_resume ==
    \E alarm_ok \in BOOLEAN :
    /\ crate = "quartz-faas/durable"
    /\ flush.by = "alarm"
    /\ flush' = NoFlush
    /\ dirty' = IF flush.ok THEN FALSE ELSE dirty
    /\ alarm_set' = (alarm_set \/ alarm_ok)
    /\ UNCHANGED <<crate, nvars, hvars, pvars, mvars, do_index, initialized,
                   alarm_scheduled, blob, do_reply, acked, do_ops>>

(* the object is evicted or stops: DurableObject::new runs for the next event *)
evict ==
    /\ crate = "quartz-faas/durable"
    /\ initialized \/ flush.by # "none"
    /\ do_index' = NoIndex
    /\ initialized' = FALSE
    /\ dirty' = FALSE
    /\ alarm_scheduled' = FALSE
    /\ flush' = NoFlush
    /\ do_reply' = DoReply("evict", "", "none")
    /\ UNCHANGED <<crate, nvars, hvars, pvars, mvars, alarm_set, blob, acked, do_ops>>

(* DurableObject::new on storage that holds nothing *)
InitDurable ==
    /\ crate = "quartz-faas/durable"
    /\ HnswUnused
    /\ LaterPartsUnused
    /\ PersistentUnused
    /\ MergeUnused
    /\ do_index = NoIndex
    /\ initialized = FALSE
    /\ dirty = FALSE
    /\ alarm_scheduled = FALSE
    /\ alarm_set = FALSE
    /\ blob = NoBlob
    /\ flush = NoFlush
    /\ do_reply = NoRequest
    /\ acked = {}
    /\ do_ops = 0

DoAlarm == \E put_ok \in BOOLEAN : alarm(put_ok)

NextDurable ==
    \/ handle_insert \/ handle_batch_insert \/ handle_get \/ handle_delete
    \/ handle_set_config \/ DoAlarm \/ alarm_resume \/ evict

SpecDurable == InitDurable /\ [][NextDurable]_vars

(* a write that succeeds at the alarm *)
DoAlarmPersists == alarm(TRUE)

(* The scheduling the runtime gives: an alarm that is set fires, a handler
   that awaits a put resumes, and storage writes do not fail for ever. *)
SpecDurableFair ==
    /\ SpecDurable
    /\ WF_vars(DoAlarm)
    /\ WF_vars(alarm_resume)
    /\ SF_vars(DoAlarmPersists)

---------------------------------------------------------------------------
(* Claims about VectorIndexObject, checked under SpecDurable *)

(* C15: every insert is written to the KV store before it is acknowledged, so
   after a crash at any point following the acknowledgement and a reopen the
   vector is still retrievable: a get of an id whose insert was acknowledged
   (and that was not deleted since) finds it. *)
C15_AcknowledgedInsertSurvives ==
    (do_reply.op = "get" /\ do_reply.id \in acked) => do_reply.ret = "Some"

(* C16: every successful insert, batch insert or soft-delete sets the dirty
   flag and leaves a flush scheduled: whenever dirty is true, an alarm is
   pending or a flush is running. *)
C16_DirtyHasFlushScheduled ==
    dirty => (alarm_set \/ flush.by = "alarm")

(* what init_index would load: the stored blob, or the default index when
   nothing is stored *)
Persisted == IF blob = NoBlob THEN HnswIndex_with_config(DefaultDimension) ELSE blob

(* the in-memory index holds changes that the stored blob does not *)
Diverged == do_index # NoIndex /\ do_index # Persisted

(* C17: a failed flush keeps dirty set and a later alarm retries: with alarms
   that keep firing and storage writes that eventually succeed, every change
   of the in-memory index is eventually in the blob under __hnsw_index__ and
   dirty is eventually cleared. *)
C17_EventuallyFlushed ==
    /\ Diverged ~> ~Diverged
    /\ dirty ~> ~dirty

(* C18: the dirty flag marks divergence: whenever no flush is in progress and
   the in-memory index differs from the blob last written, dirty is true. *)
C18_DirtyMarksDivergence ==
    (flush.by = "none" /\ Diverged) => dirty

---------------------------------------------------------------------------
(* quartz-faas: merge_shard_results.

   A SearchMatch is its id and its distance, a finite number; a
   ShardSearchResult is its results.  The arguments are drawn by the initial
   state, and the one action is the call. *)

MaxShards == 2
MaxResults == 2
MaxDistance == 2
MaxTopK == 3

MatchIds == {"a", "b"}
SearchMatches == [id : MatchIds, distance : 0..MaxDistance]
ShardResults == UNION {[1..n -> SearchMatches] : n \in 0..MaxResults}

(* shard_results.into_iter().flat_map(|sr| sr.results).collect() *)
RECURSIVE flat_map(_, _)
flat_map(results, i) ==
    IF i > Len(results) THEN <<>> ELSE results[i] \o flat_map(results, i + 1)

(* one element put into a sorted sequence behind the elements that are not
   greater: the order of equal elements is kept *)
RECURSIVE insert_sorted(_, _, _)
insert_sorted(sorted, m, i) ==
    IF i > Len(sorted) THEN Append(sorted, m)
    ELSE IF sorted[i].distance > m.distance
         THEN SubSeq(sorted, 1, i - 1) \o <<m>> \o SubSeq(sorted, i, Len(sorted))
         ELSE insert_sorted(sorted, m, i + 1)

(* all_results.sort_by(distance): stable, ascending *)
RECURSIVE sort_by(_, _)
sort_by(all_results, n) ==
    IF n = 0 THEN <<>>
    ELSE insert_sorted(sort_by(all_results, n - 1), all_results[n], 1)

(* the loop over all_results: a result with a new id is pushed, and the loop
   breaks when deduped has top_k elements or more *)
RECURSIVE dedupe(_, _, _, _, _)
dedupe(all_results, i, seen, deduped, k) ==
    IF i > Len(all_results) THEN deduped
    ELSE IF all_results[i].id \in seen
         THEN dedupe(all_results, i + 1, seen, deduped, k)
         ELSE IF Len(deduped) + 1 >= k
              THEN Append(deduped, all_results[i])
              ELSE dedupe(all_results, i + 1, seen \cup {all_results[i].id},
                          Append(deduped, all_results[i]), k)

(* merge_shard_results as it would be without the sort *)
merge_without_sort(results, k) == dedupe(flat_map(results, 1), 1, {}, <<>>, k)

merge_sorted(all_results, k) ==
    dedupe(sort_by(all_results, Len(all_results)), 1, {}, <<>>, k)

(* merge_shard_results *)
merge_shard_results(results, k) == merge_sorted(flat_map(results, 1), k)

InitMerge ==
    /\ crate = "quartz-faas/sharding"
    /\ HnswUnused
    /\ LaterPartsUnused
    /\ PersistentUnused
    /\ DurableUnused
    /\ shard_results \in UNION {[1..n -> ShardResults] : n \in 0..MaxShards}
    /\ top_k \in 0..MaxTopK
    /\ merged = <<>>
    /\ returned = FALSE

Merge ==
    /\ crate = "quartz-faas/sharding"
    /\ ~returned
    /\ merged' = merge_shard_results(shard_results, top_k)
    /\ returned' = TRUE
    /\ UNCHANGED <<crate, nvars, hvars, pvars, dvars, shard_results, top_k>>

SpecMerge == InitMerge /\ [][Merge]_vars

---------------------------------------------------------------------------
(* Claims about merge_shard_results, checked under SpecMerge *)

(* the matches passed in, over all shards *)
AllResults == flat_map(shard_results, 1)

Occurrences(id) == {i \in 1..Len(AllResults) : AllResults[i].id = id}

(* C19: merge_shard_results returns matches with pairwise distinct ids, and for
   an id that occurs in several shard results the returned match is the
   occurrence with the smallest distance. *)
C19_DistinctAndBest ==
    returned =>
        /\ \A i, j \in 1..Len(merged) : i # j => merged[i].id # merged[j].id
        /\ \A i \in 1..Len(merged) :
              /\ \E o \in Occurrences(merged[i].id) : AllResults[o] = merged[i]
              /\ \A o \in Occurrences(merged[i].id) :
                    merged[i].distance <= AllResults[o].distance

(* an id came back whose first occurrence in the input is not its best one *)
C19_LaterOccurrenceIsBest ==
    /\ returned
    /\ \E i \in 1..Len(merged) :
          \E o1, o2 \in Occurrences(merged[i].id) :
              /\ o1 < o2
              /\ AllResults[o1].distance > AllResults[o2].distance
              /\ merged[i] = AllResults[o2]

DistinctIds == {AllResults[i].id : i \in 1..Len(AllResults)}

(* the smallest distance the id has in the input *)
BestDistance(id) ==
    CHOOSE d \in 0..MaxDistance :
        /\ \E o \in Occurrences(id) : AllResults[o].distance = d
        /\ \A o \in Occurrences(id) : AllResults[o].distance >= d

(* C20: for every list of shard results and every top_k >= 0 the call returns
   exactly min(top_k, number of distinct ids) matches, in ascending order of
   distance, and they are the best matches of the de-duplicated union. *)
C20_ExactlyTopK ==
    returned =>
        /\ Len(merged) = Min(top_k, Cardinality(DistinctIds))
        /\ \A i, j \in 1..Len(merged) :
              i < j => merged[i].distance <= merged[j].distance
        /\ \A i \in 1..Len(merged) :
              \A id \in DistinctIds \ {merged[j].id : j \in 1..Len(merged)} :
                  merged[i].distance <= BestDistance(id)

---------------------------------------------------------------------------
(* quartz-faas: ShardRouter and the route POST /api/vector/insert.

   DefaultHasher::new() has fixed keys, so the hash of a key is one function of
   the key for every hasher; which function is left open: the initial state
   picks it.  Every router has the same shard_count. *)

MaxShardCount == 3
MaxHash == 4
MaxRouters == 2

Keys == {"doc1", "doc2"}
Routers == 1..MaxRouters

(* get_shard as it would be with a hasher seeded per router instance *)
get_shard_seeded(router, key) == (hashes[key] + router) % shard_count

(* ShardRouter::get_shard *)
get_shard(router, key) == hashes[key] % shard_count

(* ShardRouter::get_shard_name *)
get_shard_name(shard_id) == <<"vector-index-", shard_id>>

(* ShardRouter::new and the hash function *)
InitRouter ==
    /\ crate = "quartz-faas/sharding"
    /\ HnswUnused
    /\ PersistentUnused
    /\ DurableUnused
    /\ MergeUnused
    /\ ServerUnused
    /\ LocksUnused
    /\ EngineUnused
    /\ ReopenUnused
    /\ SearchLayerUnused
    /\ HandlersUnused
    /\ ClientUnused
    /\ shard_count \in 1..MaxShardCount
    /\ hashes \in [Keys -> 0..MaxHash]
    /\ routes = {}
    /\ forwarded = {}

(* a call of get_shard on one of the routers *)
GetShard ==
    \E router \in Routers, key \in Keys :
        /\ crate = "quartz-faas/sharding"
        /\ routes' = routes \cup {[router |-> router, key |-> key,
                                   shard |-> get_shard(router, key)]}
        /\ UNCHANGED <<crate, hvars, pvars, dvars, mvars, kvars, gvars, retry, ovars, evars, svars, lvars, shard_count, hashes,
                       forwarded>>

(* the worker's route POST /api/vector/insert: a request that passes
   validate_insert_request is forwarded to the durable object named "default" *)
post_vector_insert ==
    \E id \in Keys, valid \in BOOLEAN :
        /\ crate = "quartz-faas/sharding"
        /\ forwarded' = IF valid
                        THEN forwarded \cup {[id |-> id, target |-> <<"default">>]}
                        ELSE forwarded
        /\ UNCHANGED <<crate, hvars, pvars, dvars, mvars, kvars, gvars, retry, ovars, evars, svars, lvars, shard_count, hashes,
                       routes>>

NextRouter == GetShard \/ post_vector_insert

SpecRouter == InitRouter /\ [][NextRouter]_vars

(* C21: each vector insert request for an id is forwarded to exactly one shard
   instance, the one named vector-index-{hash(id) mod S}. *)
C21_InsertRoutedByHash ==
    \A f \in forwarded :
        /\ f.target = get_shard_name(get_shard(1, f.id))
        /\ \A g \in forwarded : g.id = f.id => g.target = f.target

(* C22: get_shard(key) depends only on the key and the shard count: repeated
   calls, also on different router instances, return the same shard index,
   and the index is in 0..S-1. *)
C22_ShardDependsOnKeyOnly ==
    \A r1, r2 \in routes :
        /\ r1.shard \in 0..(shard_count - 1)
        /\ r1.key = r2.key => r1.shard = r2.shard

(* two routers were asked for the same key, whose hash is not below the shard
   count, with more than one shard *)
C22_TwoRoutersSameKey ==
    /\ shard_count > 1
    /\ \E r1, r2 \in routes :
          /\ r1.key = r2.key
          /\ r1.router # r2.router
          /\ hashes[r1.key] >= shard_count

---------------------------------------------------------------------------
(* quartz-server: the handlers of the named vector indexes, one request at a
   time.

   An index on disk is its stored metadata (dimension, metric) and the ids of
   its stored vectors; an index in the registry is the same in memory.  RocksDB
   locks a directory that is open: DB::open of the directory of an index held by
   the registry fails.  A read of the stored metadata can fail. *)

MaxServerOps == 4

Names == {"docs"}
RequestDimensions == {Dimension, 2}

IndexOf(dimension, m, ids) == [dimension |-> dimension, metric |-> m, ids |-> ids]

(* PersistentVectorIndex::open on the directory of the name: Ok or Err *)
open_ok(name, read_ok) ==
    /\ name \notin DOMAIN registry
    /\ name \in DOMAIN disk
    /\ read_ok

(* the index PersistentVectorIndex::open builds *)
opened(name) ==
    IndexOf(disk[name].dimension, disk[name].metric,
            {id \in disk[name].ids : id < ScanLimit})

served(op, name, dimension, m, ret) ==
    /\ srv_reply' = [op |-> op, name |-> name, dimension |-> dimension,
                     metric |-> m, ret |-> ret]
    /\ srv_ops' = srv_ops + 1

(* "Store in state" and "Initialize vector ID counter for this index" *)
store_in_state(name, index) ==
    /\ registry' = Put(registry, name, index)
    /\ next_vector_ids' = IF name \in DOMAIN next_vector_ids THEN next_vector_ids
                          ELSE Put(next_vector_ids, name, 1)

(* init_vector_index_handler *)
init_vector_index_handler ==
    \E name \in Names, dimension \in RequestDimensions, m \in Metrics,
       read_ok \in BOOLEAN :
        /\ crate = "quartz-server"
        /\ srv_ops < MaxServerOps
        /\ UNCHANGED <<crate, hvars, pvars, dvars, mvars, kvars, gvars, retry, ovars, evars, rvars, lvars>>
        /\ IF open_ok(name, read_ok)
           THEN IF disk[name].dimension # dimension \/ disk[name].metric # m
                THEN /\ served("init", name, dimension, m, "BadRequest: already exists")
                     /\ UNCHANGED <<disk, registry, next_vector_ids>>
                ELSE /\ served("init", name, dimension, m, "Ok")
                     /\ store_in_state(name, opened(name))
                     /\ UNCHANGED disk
           ELSE IF name \in DOMAIN registry
                THEN /\ served("init", name, dimension, m, "Vector(StorageError)")
                     /\ UNCHANGED <<disk, registry, next_vector_ids>>
                ELSE /\ served("init", name, dimension, m, "Ok")
                     /\ disk' = Put(disk, name,
                                    IndexOf(dimension, m,
                                            IF name \in DOMAIN disk THEN disk[name].ids
                                            ELSE {}))
                     /\ store_in_state(name, IndexOf(dimension, m, {}))

(* insert_vector_handler, its storage writes succeeding *)
insert_vector_handler ==
    \E name \in Names, length \in RequestDimensions :
        /\ crate = "quartz-server"
        /\ srv_ops < MaxServerOps
        /\ UNCHANGED <<crate, hvars, pvars, dvars, mvars, kvars, gvars, retry, ovars, evars, rvars, lvars>>
        /\ IF name \notin DOMAIN registry
           THEN /\ served("insert", name, length, "", "IndexNotFound")
                /\ UNCHANGED <<disk, registry, next_vector_ids>>
           ELSE /\ next_vector_ids' = [next_vector_ids EXCEPT ![name] = @ + 1]
                /\ IF length # registry[name].dimension
                   THEN /\ served("insert", name, length, "", "Vector(DimensionMismatch)")
                        /\ UNCHANGED <<disk, registry>>
                   ELSE /\ served("insert", name, length, "", "Ok")
                        /\ registry' = [registry EXCEPT ![name].ids =
                                           @ \cup {next_vector_ids[name]}]
                        /\ disk' = [disk EXCEPT ![name].ids =
                                       @ \cup {next_vector_ids[name]}]

(* delete_vector_handler, its storage writes succeeding *)
delete_vector_handler ==
    \E name \in Names, id \in 1..MaxServerOps :
        /\ crate = "quartz-server"
        /\ srv_ops < MaxServerOps
        /\ UNCHANGED <<crate, hvars, pvars, dvars, mvars, kvars, gvars, retry, ovars, evars, rvars, lvars, next_vector_ids>>
        /\ IF name \notin DOMAIN registry
           THEN /\ served("delete", name, 0, "", "IndexNotFound")
                /\ UNCHANGED <<disk, registry>>
           ELSE IF id \notin registry[name].ids
           THEN /\ served("delete", name, 0, "", "Vector(NotFound)")
                /\ UNCHANGED <<disk, registry>>
           ELSE /\ served("delete", name, 0, "", "Ok")
                /\ registry' = [registry EXCEPT ![name].ids = @ \ {id}]
                /\ disk' = [disk EXCEPT ![name].ids = @ \ {id}]

(* the server process stops and starts again: AppState is new, the disk stays *)
restart ==
    /\ crate = "quartz-server"
    /\ registry # EmptyMap
    /\ registry' = EmptyMap
    /\ next_vector_ids' = EmptyMap
    /\ srv_reply' = [NoRequestYet EXCEPT !.op = "restart"]
    /\ UNCHANGED <<crate, hvars, pvars, dvars, mvars, kvars, gvars, retry, ovars, evars, rvars, lvars, disk, srv_ops>>

InitServer ==
    /\ crate = "quartz-server"
    /\ HnswUnused
    /\ PersistentUnused
    /\ DurableUnused
    /\ MergeUnused
    /\ RouterUnused
    /\ ServerUnused
    /\ LocksUnused
    /\ EngineUnused
    /\ ReopenUnused
    /\ SearchLayerUnused
    /\ HandlersUnused
    /\ ClientUnused

NextServer ==
    \/ init_vector_index_handler \/ insert_vector_handler
    \/ delete_vector_handler \/ restart

SpecServer == InitServer /\ [][NextServer]_vars

(* C23: when an index exists on disk under the name, an init request with a
   different dimension or metric returns the conflict error and leaves the
   stored index, the registry entry and the id counter of the name as they
   were. *)
C23_ConflictLeavesIndex ==
    [][(/\ srv_ops' # srv_ops
        /\ srv_reply'.op = "init"
        /\ srv_reply'.name \in DOMAIN disk
        /\ \/ disk[srv_reply'.name].dimension # srv_reply'.dimension
           \/ disk[srv_reply'.name].metric # srv_reply'.metric)
       => /\ srv_reply'.ret = "BadRequest: already exists"
          /\ UNCHANGED <<disk, registry, next_vector_ids>>]_vars

---------------------------------------------------------------------------
(* quartz-server: the handlers of one registered index as concurrent tasks.

   Each task is one request: it takes the lock of vector_indexes (write for
   insert and delete, read for search and get), works on the index, awaits its
   storage write while it holds the lock, and drops the lock when it returns.
   Tasks are scheduled in any order at their awaits.  The index is the ids it
   holds, with the id counter of insert. *)

MaxTasks == 3

Tasks == 1..MaxTasks
Requests == {[op |-> "insert", id |-> 0], [op |-> "delete", id |-> 1],
             [op |-> "search", id |-> 1], [op |-> "get", id |-> 1]}
Writes == {"insert", "delete"}

(* vector_indexes.write().await as it would be if it took the lock shared *)
write_shared(t) ==
    /\ rwlock.writer = 0
    /\ rwlock' = [rwlock EXCEPT !.readers = @ \cup {t}]

(* vector_indexes.write().await: granted when no task holds the lock *)
write(t) ==
    /\ rwlock.writer = 0
    /\ rwlock.readers = {}
    /\ rwlock' = [rwlock EXCEPT !.writer = t]

(* vector_indexes.read().await: granted when no task holds the write lock *)
read(t) ==
    /\ rwlock.writer = 0
    /\ rwlock' = [rwlock EXCEPT !.readers = @ \cup {t}]

(* the guard is dropped when the handler returns *)
unlock(t) ==
    rwlock' = [writer |-> IF rwlock.writer = t THEN 0 ELSE rwlock.writer,
               readers |-> rwlock.readers \ {t}]

(* what the operation of a request makes of the index *)
applied(request, index) ==
    IF request.op = "insert"
    THEN [ids |-> index.ids \cup {index.next}, next |-> index.next + 1]
    ELSE IF request.op = "delete"
         THEN [index EXCEPT !.ids = @ \ {request.id}]
         ELSE index

(* a handler up to the point where it has the lock *)
Acquire ==
    \E t \in Tasks :
        /\ crate = "quartz-server/tasks"
        /\ tasks[t].pc = "start"
        /\ IF tasks[t].op \in Writes THEN write(t) ELSE read(t)
        /\ tasks' = [tasks EXCEPT ![t].pc = "locked"]
        /\ acquired' = Append(acquired, t)
        /\ UNCHANGED <<crate, hvars, pvars, dvars, mvars, kvars, gvars, retry, ovars, evars, rvars, svars, held_index>>

(* a handler from the lock to its storage await (insert, delete of a present
   id) or to its return (delete of an absent id, search, get) *)
Operate ==
    \E t \in Tasks :
        /\ crate = "quartz-server/tasks"
        /\ tasks[t].pc = "locked"
        /\ held_index' = applied(tasks[t], held_index)
        /\ UNCHANGED <<crate, hvars, pvars, dvars, mvars, kvars, gvars, retry, ovars, evars, rvars, svars, acquired>>
        /\ IF tasks[t].op \in Writes /\ (tasks[t].op = "insert" \/ tasks[t].id \in held_index.ids)
           THEN /\ tasks' = [tasks EXCEPT ![t].pc = "awaiting", ![t].seen = held_index]
                /\ UNCHANGED rwlock
           ELSE /\ tasks' = [tasks EXCEPT ![t].pc = "done", ![t].seen = held_index,
                                          ![t].result = tasks[t].id \in held_index.ids]
                /\ unlock(t)

(* insert_vector_handler and delete_vector_handler from the storage await to
   the return *)
Resume ==
    \E t \in Tasks :
        /\ crate = "quartz-server/tasks"
        /\ tasks[t].pc = "awaiting"
        /\ tasks' = [tasks EXCEPT ![t].pc = "done", ![t].result = TRUE]
        /\ unlock(t)
        /\ UNCHANGED <<crate, hvars, pvars, dvars, mvars, kvars, gvars, retry, ovars, evars, rvars, svars, held_index,
                       acquired>>

InitTasks ==
    /\ crate = "quartz-server/tasks"
    /\ HnswUnused
    /\ PersistentUnused
    /\ DurableUnused
    /\ MergeUnused
    /\ RouterUnused
    /\ ServerUnused
    /\ EngineUnused
    /\ ReopenUnused
    /\ SearchLayerUnused
    /\ HandlersUnused
    /\ ClientUnused
    /\ rwlock = [writer |-> 0, readers |-> {}]
    /\ held_index = [ids |-> {}, next |-> 1]
    /\ tasks \in [Tasks -> {[op |-> r.op, id |-> r.id, pc |-> "start",
                             seen |-> [ids |-> {}, next |-> 1], result |-> FALSE]
                            : r \in Requests}]
    /\ acquired = <<>>

NextTasks == Acquire \/ Operate \/ Resume

SpecTasks == InitTasks /\ [][NextTasks]_vars

(* the index after the operations of the first n tasks that got the lock, one
   after the other *)
RECURSIVE InLockOrder(_)
InLockOrder(n) ==
    IF n = 0 THEN [ids |-> {}, next |-> 1]
    ELSE applied(tasks[acquired[n]], InLockOrder(n - 1))

Holding(t) == tasks[t].pc \in {"locked", "awaiting"}

(* C24: operations on one index are linearizable in lock order: an insert or
   delete never holds the lock together with another operation, and every
   operation works on exactly the effects of the operations that got the lock
   before it. *)
C24_LinearizableInLockOrder ==
    /\ \A t, u \in Tasks :
          (t # u /\ Holding(t) /\ Holding(u))
          => (tasks[t].op \notin Writes /\ tasks[u].op \notin Writes)
    /\ \A n \in 1..Len(acquired) :
          tasks[acquired[n]].pc \in {"awaiting", "done"}
          => tasks[acquired[n]].seen = InLockOrder(n - 1)

(* every task has returned, a delete of id 1 among them that came after an
   insert and found the id *)
C24_AllReturned ==
    /\ \A t \in Tasks : tasks[t].pc = "done"
    /\ \E t \in Tasks : tasks[t].op = "delete" /\ 1 \in tasks[t].seen.ids
    /\ \E t \in Tasks : tasks[t].op \in {"search", "get"} /\ tasks[t].result

---------------------------------------------------------------------------
(* StorageEngine: get, put and delete over RocksDB and the cache
   (quartz-storage/src/engine.rs, cache.rs).  A call is a task that may be
   suspended or overtaken between its RocksDB step and its cache step. *)

MaxEngineOps == 3
MaxOverlap == 2
MaxCacheSize == 2
EngineKeys == {"k1", "k2"}
EngineValues == {"v1", "v2"}
EngineOps == {"get", "put", "delete"}

Idle == [op |-> "none", key |-> "", value |-> "None", pc |-> "idle", found |-> "None"]

(* HashMap::get(..).cloned() *)
Lookup(map, key) == IF key \in DOMAIN map THEN map[key] ELSE "None"

(* CacheManager::get *)
CacheManager_get(c, key) == Lookup(c, key)

(* CacheManager::put: a full cache loses the entry its iterator yields first,
   which may be any of them, then the entry is inserted *)
CacheManager_put(c, key, value, victim) ==
    IF Cardinality(DOMAIN c) >= cache_size /\ victim \in DOMAIN c
    THEN Put(Remove(c, victim), key, value)
    ELSE Put(c, key, value)

(* the entries cache.iter().next() may yield *)
Victims(c) == IF DOMAIN c = {} THEN {""} ELSE DOMAIN c

(* a remove that leaves the entry in the cache *)
remove_nothing(c, key) == c

(* CacheManager::remove *)
CacheManager_remove(c, key) == Remove(c, key)

(* the call in slot s returns ret; a call that returned Ok(()) has changed the
   value the key is expected to have *)
Return(s, ret, expected) ==
    /\ engine_calls' = [engine_calls EXCEPT ![s] = Idle]
    /\ expected_state' = expected
    /\ engine_reply' = [op |-> engine_calls[s].op, key |-> engine_calls[s].key,
                        ret |-> ret, want |-> Lookup(expected, engine_calls[s].key)]

Goto(s, pc, found) ==
    /\ engine_calls' = [engine_calls EXCEPT ![s].pc = pc, ![s].found = found]
    /\ UNCHANGED <<expected_state, engine_reply>>

(* a caller starts a call on a free slot *)
StartCall ==
    \E s \in DOMAIN engine_calls, op \in EngineOps, key \in EngineKeys,
       value \in EngineValues :
        /\ crate = "quartz-storage"
        /\ engine_calls[s].pc = "idle"
        /\ engine_ops < MaxEngineOps
        /\ op # "put" => value = "v1"
        /\ engine_ops' = engine_ops + 1
        /\ engine_calls' = [engine_calls EXCEPT ![s] =
                              [op |-> op, key |-> key,
                               value |-> IF op = "put" THEN value ELSE "None",
                               pc |-> IF op = "get" THEN "cache" ELSE "db",
                               found |-> "None"]]
        /\ UNCHANGED <<crate, hvars, pvars, dvars, mvars, kvars, gvars, retry, ovars, rvars, svars, lvars, db,
                       cache, cache_size, expected_state, engine_reply>>

(* StorageEngine::get *)
StorageEngine_get ==
    \E s \in DOMAIN engine_calls, db_ok \in BOOLEAN, victim \in Victims(cache) :
        LET call == engine_calls[s] IN
        /\ crate = "quartz-storage"
        /\ call.op = "get"
        /\ \/ /\ call.pc = "cache"
              /\ db_ok /\ victim = CHOOSE v \in Victims(cache) : TRUE
              /\ IF CacheManager_get(cache, call.key) # "None"
                 THEN Return(s, CacheManager_get(cache, call.key), expected_state)
                 ELSE Goto(s, "db", "None")
              /\ UNCHANGED cache
           \/ /\ call.pc = "db"
              /\ victim = CHOOSE v \in Victims(cache) : TRUE
              /\ IF ~db_ok THEN Return(s, "Err", expected_state)
                 ELSE IF Lookup(db, call.key) = "None"
                      THEN Return(s, "None", expected_state)
                      ELSE Goto(s, "fill", Lookup(db, call.key))
              /\ UNCHANGED cache
           \/ /\ call.pc = "fill"
              /\ db_ok
              /\ cache' = CacheManager_put(cache, call.key, call.found, victim)
              /\ Return(s, call.found, expected_state)
        /\ UNCHANGED <<crate, hvars, pvars, dvars, mvars, kvars, gvars, retry, ovars, rvars, svars, lvars, db,
                       cache_size, engine_ops>>

(* StorageEngine::put *)
StorageEngine_put ==
    \E s \in DOMAIN engine_calls, db_ok \in BOOLEAN, victim \in Victims(cache) :
        LET call == engine_calls[s] IN
        /\ crate = "quartz-storage"
        /\ call.op = "put"
        /\ \/ /\ call.pc = "db"
              /\ victim = CHOOSE v \in Victims(cache) : TRUE
              /\ IF db_ok
                 THEN /\ db' = Put(db, call.key, call.value)
                      /\ Goto(s, "cache", "None")
                 ELSE /\ Return(s, "Err", expected_state)
                      /\ UNCHANGED db
              /\ UNCHANGED cache
           \/ /\ call.pc = "cache"
              /\ db_ok
              /\ cache' = CacheManager_put(cache, call.key, call.value, victim)
              /\ Return(s, "Ok", Put(expected_state, call.key, call.value))
              /\ UNCHANGED db
        /\ UNCHANGED <<crate, hvars, pvars, dvars, mvars, kvars, gvars, retry, ovars, rvars, svars, lvars,
                       cache_size, engine_ops>>

(* StorageEngine::delete *)
StorageEngine_delete ==
    \E s \in DOMAIN engine_calls, db_ok \in BOOLEAN :
        LET call == engine_calls[s] IN
        /\ crate = "quartz-storage"
        /\ call.op = "delete"
        /\ \/ /\ call.pc = "db"
              /\ IF db_ok
                 THEN /\ db' = Remove(db, call.key)
                      /\ Goto(s, "cache", "None")
                 ELSE /\ Return(s, "Err", expected_state)
                      /\ UNCHANGED db
              /\ UNCHANGED cache
           \/ /\ call.pc = "cache"
              /\ db_ok
              /\ cache' = CacheManager_remove(cache, call.key)
              /\ Return(s, "Ok", Remove(expected_state, call.key))
              /\ UNCHANGED db
        /\ UNCHANGED <<crate, hvars, pvars, dvars, mvars, kvars, gvars, retry, ovars, rvars, svars, lvars,
                       cache_size, engine_ops>>

(* StorageEngine::with_config on an empty directory, used by callers that make
   at most `overlap` calls at a time *)
InitEngineWith(overlap) ==
    /\ crate = "quartz-storage"
    /\ HnswUnused
    /\ PersistentUnused
    /\ DurableUnused
    /\ MergeUnused
    /\ RouterUnused
    /\ ServerUnused
    /\ LocksUnused
    /\ ReopenUnused
    /\ SearchLayerUnused
    /\ HandlersUnused
    /\ ClientUnused
    /\ db = EmptyMap
    /\ cache = EmptyMap
    /\ cache_size \in 0..MaxCacheSize
    /\ engine_calls = [s \in 1..overlap |-> Idle]
    /\ expected_state = EmptyMap
    /\ engine_reply = NoCallYet
    /\ engine_ops = 0

NextEngine == StartCall \/ StorageEngine_get \/ StorageEngine_put \/ StorageEngine_delete

(* one call after the other *)
InitEngine == InitEngineWith(1)

SpecEngine == InitEngine /\ [][NextEngine]_vars

(* calls that overlap *)
InitEngineTasks == InitEngineWith(MaxOverlap)

SpecEngineTasks == InitEngineTasks /\ [][NextEngine]_vars

AllCompleted == \A s \in DOMAIN engine_calls : engine_calls[s].pc = "idle"

(* C25: once all overlapping calls have completed, every cache entry equals
   the value RocksDB holds for its key. *)
C25_CacheMatchesRocksDB ==
    AllCompleted => \A k \in DOMAIN cache : Lookup(db, k) = cache[k]

(* C26: with calls made one after the other and any cache size, a get that
   returns Ok returns the value of the most recent put of the key, or None
   when the key was never put or was deleted since. *)
C26_GetReturnsLatest ==
    (engine_reply.op = "get" /\ engine_reply.ret # "Err")
    => engine_reply.ret = engine_reply.want

(* a get served after the cache, smaller than the number of keys, has evicted
   an entry and the key has been overwritten *)
C26_GetAfterEviction ==
    /\ engine_reply.op = "get"
    /\ engine_reply.ret = "v2"
    /\ cache_size < Cardinality(EngineKeys)
    /\ Cardinality(DOMAIN db) > Cardinality(DOMAIN cache)

(* C27: in quartz-vector, delete of a present id returns Ok (it returns Err
   only for an id that is not in the index), and every later search returns
   Ok with no deleted id among its results. *)
C27_DeleteHidesFromSearch ==
    crate = "quartz-vector" =>
        /\ last.op = "delete" => last.ret \in {"Ok", "Err"}
        /\ last.op = "search" =>
              /\ last.ret = "Ok"
              /\ \A i \in 1..Len(last.results) : last.results[i].id \in DOMAIN vectors

(* C28: in every state reached by completed operations, those that returned
   an error included, the key set of nodes equals the key set of vectors. *)
C28_NodesMatchVectors ==
    ~panicked => DOMAIN nodes = DOMAIN vectors

---------------------------------------------------------------------------
(* PersistentVectorIndex searched, closed and opened again
   (quartz-vector/src/storage.rs, hnsw.rs), with the Euclidean metric.  Storage
   works here: its failures are the matter of the persistent part above. *)

MaxBuilt == 4
ReopenCoords == {0, 1, 2, 5}
ReopenVectors == {<<x>> : x \in ReopenCoords}

(* PersistentVectorIndex::insert: HnswIndex::insert, then storage.put; the
   callers store no vector under two ids *)
reopen_insert ==
    \E id \in KnownIds, vector \in ReopenVectors, rev \in BOOLEAN :
        \E level \in 0..Min(MaxLevel, LevelCapQv) :
            /\ phase = "open"
            /\ calls < MaxBuilt
            /\ \A other \in DOMAIN on_disk \ {id} : on_disk[other] # vector
            /\ qv_insert(id, vector, level, rev)
            /\ on_disk' = IF last'.ret = "Ok" THEN Put(on_disk, id, vector) ELSE on_disk
            /\ UNCHANGED <<pvars, dvars, mvars, rvars, svars, lvars, evars, kvars, gvars, retry, phase, asked,
                           to_load>>

(* PersistentVectorIndex::delete: VectorIndex::delete, then storage.delete *)
reopen_delete ==
    \E id \in DOMAIN on_disk, rev \in BOOLEAN :
        \E first \in IF DOMAIN nodes \ {id} = {} THEN {None} ELSE DOMAIN nodes \ {id} :
            /\ phase = "open"
            /\ calls < MaxBuilt
            /\ qv_delete(id, first, rev)
            /\ on_disk' = IF last'.ret = "Ok" THEN Remove(on_disk, id) ELSE on_disk
            /\ UNCHANGED <<pvars, dvars, mvars, rvars, svars, lvars, evars, kvars, gvars, retry, phase, asked,
                           to_load>>

(* PersistentVectorIndex::search before the close *)
reopen_search ==
    \E query \in ReopenVectors, k \in Ks, rev \in BOOLEAN :
        /\ phase = "open"
        /\ qv_search(query, k, rev)
        /\ asked' = last'
        /\ phase' = "asked"
        /\ UNCHANGED <<pvars, dvars, mvars, rvars, svars, lvars, evars, kvars, gvars, retry, on_disk, to_load>>

(* the index is dropped and PersistentVectorIndex::open starts: a new empty
   VectorIndex and the ids list_vector_ids found, in ascending order *)
reopen ==
    /\ crate = "quartz-vector"
    /\ phase = "asked"
    /\ ~panicked
    /\ vectors' = EmptyMap
    /\ nodes' = EmptyMap
    /\ entry_point' = None
    /\ max_layer' = 0
    /\ last' = Call("open", None, <<>>, 0, "Ok", <<>>)
    /\ to_load' = into_sorted_vec({<<id, id>> : id \in DOMAIN on_disk})
    /\ phase' = IF on_disk = EmptyMap THEN "reopened" ELSE "loading"
    /\ UNCHANGED <<crate, metric, panicked, tombstones, calls, pvars, dvars, mvars,
                   rvars, svars, lvars, evars, kvars, gvars, retry, asked, on_disk>>

(* open, one turn of "for id in vector_ids": insert_with_metadata with a newly
   sampled level.  No other call runs before open has returned. *)
reopen_load ==
    \E rev \in BOOLEAN :
        \E level \in 0..Min(MaxLevel, LevelCapQv) :
            LET id == Head(to_load)[2] IN
            /\ crate = "quartz-vector"
            /\ phase = "loading"
            /\ qv_insert_stored(id, on_disk[id], level, rev,
                                Put(vectors, id, [vector |-> on_disk[id], deleted |-> FALSE]))
            /\ to_load' = Tail(to_load)
            /\ phase' = IF last'.ret # "Ok" THEN "failed"
                        ELSE IF Tail(to_load) = <<>> THEN "reopened" ELSE "loading"
            /\ UNCHANGED <<crate, metric, panicked, tombstones, calls, pvars, dvars,
                           mvars, rvars, svars, lvars, evars, kvars, gvars, retry, asked, on_disk>>

(* the search made before the close, made again on the opened index *)
reopen_search_again ==
    \E rev \in BOOLEAN :
        /\ phase = "reopened"
        /\ qv_search(asked.vector, asked.k, rev)
        /\ UNCHANGED <<pvars, dvars, mvars, nvars>>

InitReopen ==
    /\ crate = "quartz-vector"
    /\ metric = "Euclidean"
    /\ vectors = EmptyMap
    /\ nodes = EmptyMap
    /\ entry_point = None
    /\ max_layer = 0
    /\ panicked = FALSE
    /\ tombstones = {}
    /\ last = Call("new", None, <<>>, 0, "Ok", <<>>)
    /\ calls = 0
    /\ PersistentUnused
    /\ DurableUnused
    /\ MergeUnused
    /\ RouterUnused
    /\ ServerUnused
    /\ LocksUnused
    /\ EngineUnused
    /\ SearchLayerUnused
    /\ HandlersUnused
    /\ ClientUnused
    /\ phase = "open"
    /\ asked = [op |-> "none", id |-> 0, vector |-> <<>>, k |-> 0, ret |-> "none",
                results |-> <<>>]
    /\ on_disk = EmptyMap
    /\ to_load = <<>>

NextReopen ==
    \/ reopen_insert \/ reopen_delete \/ reopen_search
    \/ reopen \/ reopen_load \/ reopen_search_again

SpecReopen == InitReopen /\ [][NextReopen]_vars

(* every call before the close was an insert of a new id *)
OnlyInserted == calls = Cardinality(DOMAIN on_disk)

(* no two stored vectors are equally far from the query *)
NoTie ==
    \A a, b \in DOMAIN on_disk :
        a # b => calculate(asked.vector, on_disk[a]) # calculate(asked.vector, on_disk[b])

(* C29: a search on the reopened index returns the result list, each id with
   its distance in the same order, that the same search returned before the
   close; stated for an index that was only inserted into and a query that no
   two stored vectors are equally far from. *)
C29_SameResultsAfterReopen ==
    (phase = "reopened" /\ last.op = "search" /\ OnlyInserted /\ NoTie)
    => (last.ret = asked.ret /\ last.results = asked.results)

(* C30: a failed read of the stored blob during initialisation never leads to
   a flush that overwrites the blob with an index lacking stored vectors: an
   acknowledged vector that the stored blob holds is still in the blob after
   every step, unless it was given up by a configuration change. *)
C30_FlushKeepsStoredVectors ==
    [][\A id \in acked \cap acked' :
          id \in DOMAIN blob.vectors => id \in DOMAIN blob'.vectors]_vars

---------------------------------------------------------------------------
(* C31: soft_delete and undelete change nothing but the deleted flag of the
   entry they name: nodes with their connection sets, the entry point and
   every other entry stay as they are; a soft_delete that returned true is
   undone by flipping the flag back, which is what an undelete that returns
   true does. *)
C31_OnlyDeletedFlagChanges ==
    [][(crate = "quartz-faas" /\ calls' # calls
        /\ last'.op \in {"soft_delete", "undelete"})
       => /\ nodes' = nodes
          /\ entry_point' = entry_point
          /\ max_layer' = max_layer
          /\ metric' = metric
          /\ DOMAIN vectors' = DOMAIN vectors
          /\ \A x \in DOMAIN vectors :
                /\ vectors'[x].vector = vectors[x].vector
                /\ x # last'.id => vectors'[x] = vectors[x]
          /\ (last'.op = "soft_delete" /\ last'.ret = "true")
             => (/\ ~vectors[last'.id].deleted
                 /\ [vectors' EXCEPT ![last'.id].deleted = FALSE] = vectors)
          /\ (last'.op = "undelete" /\ last'.ret = "true")
             => vectors' = [vectors EXCEPT ![last'.id].deleted = FALSE]
          /\ last'.ret # "true" => vectors' = vectors]_vars

(* an undelete has restored an entry of an index with two linked nodes *)
C31_RestoredByUndelete ==
    /\ crate = "quartz-faas"
    /\ last.op = "undelete"
    /\ last.ret = "true"
    /\ Cardinality(DOMAIN nodes) >= 2
    /\ ~vectors[last.id].deleted

(* C32: once mutations have stopped, after finitely many alarms no alarm is
   pending and alarm_scheduled is false, for good. *)
C32_AlarmsComeToRest ==
    <>[](~alarm_set /\ ~alarm_scheduled /\ flush.by = "none")


(***************************************************************************)
(* search_layer, one loop turn per step, on arbitrary graphs               *)
(* (quartz-faas/src/vector/hnsw.rs, quartz-vector/src/hnsw.rs)             *)
(***************************************************************************)
MaxEf == 2
SlNodes == 1..2
SlTargets == 1..3
SlCoords == {0, 1}
SlQuery == <<0>>
SlGraphs ==
    [SlNodes -> {[level |-> 0, connections |-> <<S>>] : S \in SUBSET SlTargets}]
(* id 1 is stored; id 2 is stored or not; id 3, which has no node, is stored
   at distance 1 or not at all *)
SlVectors ==
    {v \in UNION {[S -> {[vector |-> <<x>>, deleted |-> FALSE] : x \in SlCoords}] :
                     S \in SUBSET SlTargets} :
        /\ 1 \in DOMAIN v
        /\ 3 \in DOMAIN v => v[3].vector = <<1>>}
(* the calls made: with one entry point and ef = 1 (the descent), with the
   entry points a search with the same ef returned (the layers below) *)
SlCalls ==
    {c \in [query : {SlQuery}, entry_points : {<<1>>, <<1, 2>>, <<2, 3>>},
            ef : 1..MaxEf] : Len(c.entry_points) <= c.ef}

(* "Initialize with entry points" of either crate *)
sl_seed(vs, query, entry_points) ==
    IF crate = "quartz-faas"
    THEN LET eps == {ep \in Range(entry_points) : ep \in DOMAIN vs}
             seed == {<<compute_distance(query, vs[ep].vector), ep>> : ep \in eps}
         IN  [candidates |-> seed, w |-> seed, visited |-> eps]
    ELSE qv_seed(vs, query, Range(entry_points))

InitSearchLayer ==
    /\ crate \in {"quartz-faas", "quartz-vector"}
    /\ metric = "Euclidean"
    /\ vectors \in SlVectors
    /\ nodes \in SlGraphs
    /\ entry_point = None
    /\ max_layer = 0
    /\ panicked = FALSE
    /\ tombstones = {}
    /\ last = Call("new", None, <<>>, 0, "Ok", <<>>)
    /\ calls = 0
    /\ PersistentUnused
    /\ DurableUnused
    /\ MergeUnused
    /\ RouterUnused
    /\ ServerUnused
    /\ LocksUnused
    /\ EngineUnused
    /\ ReopenUnused
    /\ HandlersUnused
    /\ ClientUnused
    /\ sl_call \in SlCalls
    /\ sl_state = sl_seed(vectors, sl_call.query, sl_call.entry_points)
    /\ sl_expanded = <<>>
    /\ sl_result = [pc |-> "loop", ret |-> "none", ids |-> <<>>]

(* the neighbors of the popped candidate, in the set's iteration order *)
sl_neighbors(id, rev) ==
    IF id \in DOMAIN nodes /\ 0 < Len(nodes[id].connections)
    THEN IterOrder(nodes[id].connections[1], rev)
    ELSE <<>>

(* search_layer_with_query: one turn of `while let Some(..) = candidates.pop()`,
   or the return once the loop has ended *)
faas_search_layer_step ==
    /\ crate = "quartz-faas"
    /\ sl_result.pc = "loop"
    /\ IF sl_state.candidates = {}
       THEN /\ sl_result' = [pc |-> "done", ret |-> "Ok",
                             ids |-> SeqIds(into_sorted_vec(sl_state.w))]
            /\ UNCHANGED <<sl_state, sl_expanded>>
       ELSE LET c == MinTuple(sl_state.candidates)
                f_dist == IF sl_state.w = {} THEN F32_MAX ELSE MaxTuple(sl_state.w)[1]
                popped == [sl_state EXCEPT !.candidates = @ \ {c}]
            IN  IF c[1] > f_dist
                THEN /\ sl_result' = [pc |-> "done", ret |-> "Ok",
                                      ids |-> SeqIds(into_sorted_vec(popped.w))]
                     /\ sl_state' = popped
                     /\ UNCHANGED sl_expanded
                ELSE \E rev \in BOOLEAN :
                        /\ sl_state' = faas_visit_neighbors(vectors, sl_call.query,
                                           sl_call.ef, sl_neighbors(c[2], rev), 1, popped)
                        /\ sl_expanded' = Append(sl_expanded, c[2])
                        /\ UNCHANGED sl_result
    /\ UNCHANGED <<crate, hvars, pvars, dvars, mvars, rvars, svars, lvars, evars,
                   ovars, gvars, retry, sl_call>>

(* HnswIndex::search_layer of quartz-vector: one turn of the while loop, the
   return of the error of distance(), or the return once the loop has ended *)
qv_search_layer_step ==
    /\ crate = "quartz-vector"
    /\ sl_result.pc = "loop"
    /\ IF sl_state.err
       THEN /\ sl_result' = [pc |-> "done", ret |-> "Err", ids |-> <<>>]
            /\ UNCHANGED <<sl_state, sl_expanded>>
       ELSE IF sl_state.candidates = {}
       THEN /\ \E rev \in BOOLEAN :
                 sl_result' = [pc |-> "done", ret |-> "Ok",
                               ids |-> qv_extract(sl_state, rev).ids]
            /\ UNCHANGED <<sl_state, sl_expanded>>
       ELSE LET c == MinTuple(sl_state.candidates)
                popped == [sl_state EXCEPT !.candidates = @ \ {c}]
            IN  IF popped.nearest # {} /\ c[1] > MaxTuple(popped.nearest)[1]
                THEN /\ \E rev \in BOOLEAN :
                          sl_result' = [pc |-> "done", ret |-> "Ok",
                                        ids |-> qv_extract(popped, rev).ids]
                     /\ sl_state' = popped
                     /\ UNCHANGED sl_expanded
                ELSE \E rev \in BOOLEAN :
                        /\ sl_state' = qv_visit_neighbors(vectors, sl_call.query,
                                           sl_call.ef, sl_neighbors(c[2], rev), 1, popped)
                        /\ sl_expanded' = Append(sl_expanded, c[2])
                        /\ UNCHANGED sl_result
    /\ UNCHANGED <<crate, hvars, pvars, dvars, mvars, rvars, svars, lvars, evars,
                   ovars, gvars, retry, sl_call>>

NextSearchLayer == faas_search_layer_step \/ qv_search_layer_step

SpecSearchLayer == InitSearchLayer /\ [][NextSearchLayer]_vars

(* a call that has begun keeps running: nothing but its own loop holds it *)
SpecSearchLayerFair == SpecSearchLayer /\ WF_vars(NextSearchLayer)

(* the distance of a returned id from the query *)
sl_dist(id) == compute_distance(sl_call.query, vectors[id].vector)

ExpandedOnce ==
    \A i, j \in 1..Len(sl_expanded) : i # j => sl_expanded[i] # sl_expanded[j]

AtMostEfAscending ==
    sl_result.pc = "done" =>
        /\ Len(sl_result.ids) <= sl_call.ef
        /\ \A i \in 1..Len(sl_result.ids) : sl_result.ids[i] \in DOMAIN vectors
        /\ \A i, j \in 1..Len(sl_result.ids) :
              i < j => sl_dist(sl_result.ids[i]) <= sl_dist(sl_result.ids[j])

(* an id waits in candidates only after it was marked visited *)
CandidatesVisited ==
    sl_result.pc = "loop" => \A c \in sl_state.candidates : c[2] \in sl_state.visited

(* C33: search_layer returns on every graph, with cycles, one-directional
   edges, self-loops and edges to ids that have no node; an id becomes a
   candidate only once it is marked visited, so the neighbors of each node
   are checked at most once, and what is returned is at most ef ids in
   ascending order of distance. *)
C33_SearchLayerTerminates ==
    /\ [](CandidatesVisited /\ ExpandedOnce /\ AtMostEfAscending)
    /\ <>(sl_result.pc = "done")

(* a search that returned two ids after going round a cycle with a self-loop
   and an edge to an id without a node *)
C33_ReturnedOnCyclicGraph ==
    /\ sl_result.pc = "done"
    /\ sl_result.ret = "Ok"
    /\ Len(sl_result.ids) = 2
    /\ Len(sl_expanded) = 2
    /\ 1 \in nodes[1].connections[1]
    /\ 2 \in nodes[1].connections[1]
    /\ 1 \in nodes[2].connections[1]
    /\ 3 \in nodes[2].connections[1]


(* the distance prune_connections computes from node n to its connection x,
   once the insert has stored its vector *)
pruned_dist(n, x) == compute_distance(vectors'[n].vector, vectors'[x].vector)

(* C34: neighbour selection and pruning are deterministic: among the
   connections of a node at equal distance the ones with the smaller id are
   kept, so a connection that an insert drops from a node is never nearer than,
   nor as near as and of smaller id than, one the node keeps. *)
C34_SmallerIdKeptOnTies ==
    [][(crate = "quartz-faas" /\ ~panicked') =>
        \A n \in DOMAIN nodes \cap DOMAIN nodes' :
            \A l \in 1..Min(Len(nodes[n].connections), Len(nodes'[n].connections)) :
                \A x \in nodes[n].connections[l] \ nodes'[n].connections[l],
                   y \in nodes'[n].connections[l] :
                    (last'.id # n /\ {n, x, y} \subseteq DOMAIN vectors') =>
                        TupleLess(<<pruned_dist(n, y), y>>, <<pruned_dist(n, x), x>>)]_vars


(* C36: the id insert_vector_handler allocates is never the id of a vector
   the index already holds, in memory or on disk, also after the index was
   opened from disk by a server whose id counter starts at 1. *)
C36_AllocatedIdIsFresh ==
    [][(/\ srv_ops' # srv_ops
        /\ srv_reply'.op = "insert"
        /\ srv_reply'.ret = "Ok")
       => /\ next_vector_ids[srv_reply'.name] \notin registry[srv_reply'.name].ids
          /\ next_vector_ids[srv_reply'.name] \notin disk[srv_reply'.name].ids]_vars


(* C37: in the quartz-vector HnswIndex there are no dangling edges: every id
   in the connection set of a node at layer l is the id of a node that has
   layer l. *)
C37_NoDanglingEdges ==
    (crate = "quartz-vector" /\ ~panicked) =>
        \A n \in DOMAIN nodes :
            \A l \in 1..Len(nodes[n].connections) :
                \A x \in nodes[n].connections[l] :
                    x \in DOMAIN nodes /\ l <= Len(nodes[x].connections)


---------------------------------------------------------------------------
(* quartz-server: the handlers of one index name as concurrent tasks over the
   two locks of AppState.

   Each task is one request.  It runs from await to await: the open of the
   index directory (init), the wait for vector_indexes, the wait for
   next_vector_ids, the storage await under the locks, the return, which
   drops the guards.  RocksDB locks a directory that is open, so DB::open of
   the directory of a live PersistentVectorIndex fails. *)

MaxHandlers == 4

HandlerIds == 1..MaxHandlers
HandlerOps == <<"init", "insert", "search", "get", "delete", "delete_index">>

(* the locks a handler takes, in the order of its statements *)
lock_order_ids_first(op) ==
    IF op \in {"search", "get", "delete"} THEN <<"vector_indexes">>
    ELSE IF op = "delete_index" THEN <<"next_vector_ids", "vector_indexes">>
    ELSE <<"vector_indexes", "next_vector_ids">>

lock_order(op) ==
    IF op \in {"search", "get", "delete"} THEN <<"vector_indexes">>
    ELSE <<"vector_indexes", "next_vector_ids">>

(* .read() for search and get, .write() for the others *)
lock_mode(op) == IF op \in {"search", "get"} THEN "read" ELSE "write"

(* the RwLock grants the guard *)
can_lock(t, name, mode) ==
    /\ locks[name].writer = 0
    /\ mode = "write" => locks[name].readers = {}

locked(t, name, mode) ==
    IF mode = "write" THEN [locks EXCEPT ![name].writer = t]
    ELSE [locks EXCEPT ![name].readers = @ \cup {t}]

(* the guards of the task are dropped at its return *)
released(t) ==
    [name \in DOMAIN locks |->
        [writer |-> IF locks[name].writer = t THEN 0 ELSE locks[name].writer,
         readers |-> locks[name].readers \ {t}]]

(* DB::open with the directory lock never refused *)
db_open_unlocked(dir) == TRUE

(* DB::open of StorageEngine::new: refused while the directory is locked *)
db_open_ok(dir) == ~dir.locked

handler_done(t, ret) == [handlers EXCEPT ![t].pc = "done", ![t].ret = ret]

(* init_vector_index_handler up to "Store in state": open, or create *)
open_index(t) ==
    /\ crate = "quartz-server/handlers"
    /\ handlers[t].op = "init"
    /\ handlers[t].pc = "start"
    /\ IF db_open_ok(directory)
       THEN /\ directory' = [exists |-> TRUE, ids |-> directory.ids, locked |-> TRUE]
            /\ handlers' = [handlers EXCEPT ![t].pc = "want1", ![t].inst = directory.ids]
       ELSE /\ handlers' = handler_done(t, "Vector(StorageError)")
            /\ UNCHANGED directory
    /\ UNCHANGED <<crate, hvars, pvars, dvars, mvars, rvars, svars, lvars, evars,
                   ovars, kvars, retry, locks, live_index, id_counter, acknowledged>>

(* a handler gets the first of its locks and runs to its next await *)
acquire_first(t) ==
    LET op == handlers[t].op
        name == lock_order(op)[1]
    IN  /\ crate = "quartz-server/handlers"
        /\ handlers[t].pc = "want1"
        /\ can_lock(t, name, lock_mode(op))
        /\ UNCHANGED <<crate, hvars, pvars, dvars, mvars, rvars, svars, lvars, evars,
                       ovars, kvars, retry, id_counter>>
        /\ IF op = "init"
           THEN /\ live_index' = [present |-> TRUE, ids |-> handlers[t].inst]
                /\ handlers' = [handlers EXCEPT ![t].pc = "want2"]
                /\ locks' = locked(t, name, "write")
                /\ UNCHANGED <<directory, acknowledged>>
           ELSE IF op = "delete_index"
           THEN /\ handlers' = [handlers EXCEPT ![t].pc = "want2"]
                /\ locks' = locked(t, name, "write")
                /\ UNCHANGED <<live_index, directory, acknowledged>>
           ELSE IF ~live_index.present
           THEN /\ handlers' = handler_done(t, "IndexNotFound")
                /\ UNCHANGED <<locks, live_index, directory, acknowledged>>
           ELSE IF op = "insert"
           THEN /\ handlers' = [handlers EXCEPT ![t].pc = "want2"]
                /\ locks' = locked(t, name, "write")
                /\ UNCHANGED <<live_index, directory, acknowledged>>
           ELSE IF op = "delete"
           THEN IF handlers[t].id \in live_index.ids
                THEN /\ live_index' = [live_index EXCEPT !.ids = @ \ {handlers[t].id}]
                     /\ directory' = [directory EXCEPT !.ids = @ \ {handlers[t].id}]
                     /\ acknowledged' = acknowledged \ {handlers[t].id}
                     /\ handlers' = [handlers EXCEPT ![t].pc = "awaiting"]
                     /\ locks' = locked(t, name, "write")
                ELSE /\ handlers' = handler_done(t, "Vector(NotFound)")
                     /\ UNCHANGED <<locks, live_index, directory, acknowledged>>
           ELSE /\ handlers' = [handlers EXCEPT ![t].pc = "awaiting",
                                                ![t].inst = live_index.ids]
                /\ locks' = locked(t, name, "read")
                /\ UNCHANGED <<live_index, directory, acknowledged>>

(* a handler gets the second of its locks and runs to its next await *)
acquire_second(t) ==
    LET op == handlers[t].op
        name == lock_order(op)[2]
        current_id == IF id_counter = 0 THEN 1 ELSE id_counter
    IN  /\ crate = "quartz-server/handlers"
        /\ handlers[t].pc = "want2"
        /\ can_lock(t, name, "write")
        /\ UNCHANGED <<crate, hvars, pvars, dvars, mvars, rvars, svars, lvars, evars,
                       ovars, kvars, retry>>
        /\ IF op = "init"
           THEN /\ id_counter' = current_id
                /\ handlers' = handler_done(t, "Ok")
                /\ locks' = released(t)
                /\ UNCHANGED <<live_index, directory, acknowledged>>
           ELSE IF op = "insert"
           THEN /\ id_counter' = current_id + 1
                /\ live_index' = [live_index EXCEPT !.ids = @ \cup {current_id}]
                /\ directory' = [directory EXCEPT !.ids = @ \cup {current_id}]
                /\ handlers' = [handlers EXCEPT ![t].pc = "awaiting", ![t].id = current_id]
                /\ locks' = locked(t, name, "write")
                /\ UNCHANGED acknowledged
           ELSE IF ~live_index.present
           THEN /\ handlers' = handler_done(t, "IndexNotFound")
                /\ locks' = released(t)
                /\ UNCHANGED <<live_index, id_counter, directory, acknowledged>>
           ELSE \E removed \in BOOLEAN :
                /\ live_index' = [present |-> FALSE, ids |-> {}]
                /\ id_counter' = 0
                /\ directory' = IF removed
                                THEN [exists |-> FALSE, ids |-> {}, locked |-> FALSE]
                                ELSE [directory EXCEPT !.locked = FALSE]
                /\ acknowledged' = {}
                /\ handlers' = handler_done(t, "Ok")
                /\ locks' = released(t)

(* a handler from its storage await under the lock to its return *)
resume(t) ==
    /\ crate = "quartz-server/handlers"
    /\ handlers[t].pc = "awaiting"
    /\ handlers' = handler_done(t, IF handlers[t].op \in {"search", "get"}
                                  /\ handlers[t].id \notin handlers[t].inst
                               THEN "NotFound" ELSE "Ok")
    /\ locks' = released(t)
    /\ acknowledged' = IF handlers[t].op = "insert"
                       THEN acknowledged \cup {handlers[t].id} ELSE acknowledged
    /\ UNCHANGED <<crate, hvars, pvars, dvars, mvars, rvars, svars, lvars, evars,
                   ovars, kvars, retry, live_index, id_counter, directory>>

(* the request of a task: a delete, search or get asks for id 1 *)
Request(op) ==
    [op |-> op, pc |-> IF op = "init" THEN "start" ELSE "want1", inst |-> {},
     id |-> IF op \in {"search", "get", "delete"} THEN 1 ELSE 0, ret |-> "none"]

InitHandlers ==
    /\ crate = "quartz-server/handlers"
    /\ HnswUnused
    /\ PersistentUnused
    /\ DurableUnused
    /\ MergeUnused
    /\ RouterUnused
    /\ ServerUnused
    /\ LocksUnused
    /\ EngineUnused
    /\ ReopenUnused
    /\ SearchLayerUnused
    /\ ClientUnused
    /\ \E asked_ops \in [HandlerIds -> 1..Len(HandlerOps)] :
          /\ \A t, u \in HandlerIds : t < u => asked_ops[t] <= asked_ops[u]
          /\ handlers = [t \in HandlerIds |-> Request(HandlerOps[asked_ops[t]])]
    /\ locks = [name \in {"vector_indexes", "next_vector_ids"} |->
                   [writer |-> 0, readers |-> {}]]
    /\ live_index = [present |-> FALSE, ids |-> {}]
    /\ id_counter = 0
    /\ directory = [exists |-> FALSE, ids |-> {}, locked |-> FALSE]
    /\ acknowledged = {}

NextHandlers ==
    \E t \in HandlerIds :
        open_index(t) \/ acquire_first(t) \/ acquire_second(t) \/ resume(t)

SpecHandlers == InitHandlers /\ [][NextHandlers]_vars

(* the runtime runs a task that can go on *)
SpecHandlersFair == SpecHandlers /\ WF_vars(NextHandlers)

(* C35: an insert that was acknowledged stays retrievable on the registered
   index under every interleaving with init requests for the same name: the
   entry of the name in vector_indexes is never replaced by an index that
   lacks an acknowledged vector. *)
C35_AcknowledgedStaysInIndex ==
    /\ acknowledged \subseteq live_index.ids
    /\ acknowledged # {} => live_index.present

(* an init request was refused on the live index after an insert into it was
   acknowledged *)
C35_InitAfterAcknowledgedInsert ==
    /\ acknowledged # {}
    /\ \E t, u \in HandlerIds :
          /\ handlers[t].op = "init" /\ handlers[t].ret = "Ok"
          /\ handlers[u].op = "init" /\ handlers[u].ret = "Vector(StorageError)"

HoldsWrite(t, name) == locks[name].writer = t

AllHandlersDone == \A t \in HandlerIds : handlers[t].pc = "done"

(* C38: the handlers never deadlock: a handler holds next_vector_ids only
   while it holds vector_indexes, and every set of concurrent requests
   eventually has all its requests completed. *)
C38_NoDeadlock ==
    /\ [](\A t \in HandlerIds :
            HoldsWrite(t, "next_vector_ids") => HoldsWrite(t, "vector_indexes"))
    /\ <>AllHandlersDone

(* init, insert and delete_index ran concurrently and all were answered Ok *)
C38_AllThreeAnswered ==
    /\ AllHandlersDone
    /\ \A op \in {"init", "insert", "delete_index"} :
          \E t \in HandlerIds : handlers[t].op = op /\ handlers[t].ret = "Ok"

---------------------------------------------------------------------------
(* quartz-client: QuartzClient::with_retry.  One call, one turn of its while
   loop per step; the operation answers Ok or one of two errors, as it likes. *)

MaxRetries == 4
Errors == {"Timeout", "Server"}

(* QuartzClientBuilder::with_max_retries, build, and the entry of with_retry *)
InitClient ==
    /\ crate = "quartz-client"
    /\ HnswUnused
    /\ PersistentUnused
    /\ DurableUnused
    /\ MergeUnused
    /\ RouterUnused
    /\ ServerUnused
    /\ LocksUnused
    /\ EngineUnused
    /\ ReopenUnused
    /\ SearchLayerUnused
    /\ HandlersUnused
    /\ \E max_retries \in 0..MaxRetries :
          retry = [max_retries |-> max_retries, attempts |-> 0, last_error |-> "None",
                   pc |-> "loop", ret |-> "none", invoked |-> <<>>]

(* one turn of `while attempts < self.config.max_retries`: f().await *)
with_retry_attempt ==
    /\ crate = "quartz-client"
    /\ retry.pc = "loop"
    /\ retry.attempts < retry.max_retries
    /\ \E outcome \in {"Ok"} \cup Errors :
          retry' = IF outcome = "Ok"
                   THEN [retry EXCEPT !.pc = "done", !.ret = "Ok",
                                      !.invoked = Append(@, outcome)]
                   ELSE [retry EXCEPT !.attempts = @ + 1, !.last_error = outcome,
                                      !.invoked = Append(@, outcome)]
    /\ UNCHANGED <<crate, hvars, pvars, dvars, mvars, rvars, svars, lvars, evars,
                   ovars, kvars, gvars>>

(* the loop has ended: Err(last_error.unwrap_or_else(..)) *)
with_retry_return ==
    /\ crate = "quartz-client"
    /\ retry.pc = "loop"
    /\ ~(retry.attempts < retry.max_retries)
    /\ retry' = [retry EXCEPT !.pc = "done",
                              !.ret = IF retry.last_error = "None"
                                      THEN "Network(Unknown error)"
                                      ELSE retry.last_error]
    /\ UNCHANGED <<crate, hvars, pvars, dvars, mvars, rvars, svars, lvars, evars,
                   ovars, kvars, gvars>>

NextClient == with_retry_attempt \/ with_retry_return

SpecClient == InitClient /\ [][NextClient]_vars

(* C39: with_retry invokes the operation at least once and at most
   max_retries times, for every max_retries, 0 included; it returns the first
   Ok without a further attempt, and otherwise the error of the last attempt. *)
C39_RetryBounds ==
    retry.pc = "done" =>
        /\ Len(retry.invoked) >= 1
        /\ retry.max_retries >= 1 => Len(retry.invoked) <= retry.max_retries
        /\ \A i \in 1..(Len(retry.invoked) - 1) : retry.invoked[i] # "Ok"
        /\ retry.ret = retry.invoked[Len(retry.invoked)]

===========================================================================
